---- MODULE Spec2Model ----
(***************************************************************************)
(* pdf2scorm: the document-reconstruction engine (backend/builders/        *)
(* lecture_builder.py) and the package serializer                          *)
(* (backend/scorm_builder.py), as state machines.                          *)
(*                                                                         *)
(* Units.  Page coordinates are integers counted in TENTHS of a layout     *)
(* unit (25.1 units = 251), font sizes are whole points.  Every comparison *)
(* the code makes on floats (means, medians, the standard deviation) is    *)
(* made here on exact rationals by cross-multiplication.                   *)
(***************************************************************************)
EXTENDS Integers, Sequences, FiniteSets, TLC

\* ------------------------------------------------------------------ bounds
\* Longest fragment stream handed to build_lecture.
MaxLen == 4

\* ------------------------------------------------------ program constants
\* normalize_y: round(bbox[1] / 5.0) * 5.0
LineBucket == 50
\* gaps kept for the statistics: gap > 0 and gap < 100
GapOutlier == 1000
\* default median / mean gap when no gap qualifies
DefaultGap == 150
\* vertical_gap < 15
GapBasic == 150
\* font_size_diff < 2.0
FontDiffMax == 2
\* vertical_gap > 8 (sentence-boundary heuristic)
GapSentence == 80
\* vertical_gap > 25 (very large gap)
GapVeryLarge == 250
\* header rules 1 and 2: num_lines <= 2 and len(text) <= 150
HeaderMaxLines == 2
HeaderMaxChars == 150
\* header rule 3: 3 < len(text) <= 100, vertical_gap > 20
Rule3MaxChars == 100
Rule3MinChars == 3
Rule3Gap == 200
\* header text and page title are cut to 100 characters
TitleMaxChars == 100
\* title fallback: first text paragraph with len(text) < 200
TitleParaMaxChars == 200
\* default A4 page height, 842 units
DefaultPageHeight == 8420
\* img_relative_height > 60
LargeImagePercent == 60
\* distance < 100 (text near a very large image)
NearTextDistance == 1000
\* min_distance > 300 (nearest text block fallback)
NearestMaxDistance == 3000

\* --------------------------------------------------------------- helpers
Abs(x) == IF x < 0 THEN -x ELSE x

Min2(a, b) == IF a <= b THEN a ELSE b

RECURSIVE SumSeq(_)
SumSeq(s) == IF s = <<>> THEN 0 ELSE Head(s) + SumSeq(Tail(s))

RECURSIVE Concat(_)
Concat(ss) == IF ss = <<>> THEN <<>> ELSE Head(ss) \o Concat(Tail(ss))

Range(s) == {s[i] : i \in DOMAIN s}

\* Python round(): to the nearest integer, ties to the even one.  RoundDiv(n, d)
\* is round(n / d) for d > 0.
RoundDiv(n, d) ==
    LET q == n \div d
        r == n % d
    IN  IF 2 * r < d THEN q
        ELSE IF 2 * r > d THEN q + 1
        ELSE IF q % 2 = 0 THEN q ELSE q + 1

\* ------------------------------------------------------------------ text
\* A text is a sequence of one-character strings.
UpperChars == {"A", "B", "C", "D", "I", "M", "N", "O", "P", "T"}

WhiteChars == {" ", "\n"}

IsUpper(c) == c \in UpperChars

RECURSIVE LStrip(_)
LStrip(t) == IF t # <<>> /\ Head(t) \in WhiteChars THEN LStrip(Tail(t)) ELSE t

RECURSIVE RStrip(_)
RStrip(t) ==
    IF t # <<>> /\ t[Len(t)] \in WhiteChars THEN RStrip(SubSeq(t, 1, Len(t) - 1)) ELSE t

\* str.strip()
Strip(t) == RStrip(LStrip(t))

\* " ".join(parts)
RECURSIVE JoinSpace(_)
JoinSpace(parts) ==
    IF parts = <<>> THEN <<>>
    ELSE IF Len(parts) = 1 THEN parts[1]
    ELSE parts[1] \o <<" ">> \o JoinSpace(Tail(parts))

EndsWith(t, c) == t # <<>> /\ t[Len(t)] = c

StartsUpper(t) == t # <<>> /\ IsUpper(t[1])

\* -------------------------------------------------------------- elements
\* ParsedElement.  bbox is <<x0, y0, x1, y1>>.
NoPath == [kind |-> "none", name |-> [stem |-> "", n |-> 0], src |-> "ok"]

TextEl(text, size, bold, x0, y0, y1, page) ==
    [type |-> "text", text |-> text, image_path |-> NoPath, font_size |-> size,
     is_bold |-> bold, bbox |-> <<x0, y0, x0 + 1000, y1>>, page_number |-> page]

ImageEl(path, y0, y1, page) ==
    [type |-> "image", text |-> <<>>, image_path |-> path, font_size |-> 12,
     is_bold |-> FALSE, bbox |-> <<0, y0, 2000, y1>>, page_number |-> page]

\* normalize_y
normalize_y(bbox) == RoundDiv(bbox[2], LineBucket) * LineBucket

\* ----------------------------------------------------------- image paths
\* An image reference is [kind, name, src]:
\*   kind "images"   relative and starting with "images/"   (images/<name>)
\*        "relative" relative, in another directory         (pics/<name>)
\*        "absolute" an absolute file path                  (/tmp/<name>)
\*        "data"     a data:image/ URI
\*        "blob"     a blob: URL
\*   name Path(image_path).name, the last path component
\*   src  what the environment answers when the source is resolved:
\*        "ok"; "missing" (absolute path of no file, or a data URI the
\*        regular expression does not match); "error" (shutil.copy2 or
\*        base64.b64decode raises).
FileName(stem) == [stem |-> stem, n |-> 0]

\* img_{uuid4()}{ext}: the k-th identifier drawn is unlike every other name.
GeneratedName(k) == [stem |-> "img_", n |-> k]

ImagesPath(name) == [kind |-> "images", name |-> name, src |-> "ok"]

\* Path(p).is_absolute()
IsAbsolute(p) == p.kind = "absolute"

\* p.startswith("images/")
StartsWithImages(p) == p.kind = "images"

\* p.startswith("blob:")
StartsWithBlob(p) == p.kind = "blob"

\* p.startswith("data:image/")
StartsWithData(p) == p.kind = "data"

\* Case 1 of the loop body: nothing to do, and no identifier is drawn.
AlreadyNormalized(p) == ~IsAbsolute(p) /\ StartsWithImages(p)

\* The output of the absolute-path case taken to be the absolute path of the
\* copy instead of images/<name>
NormalizeOnePathToCopy(p, k) ==
    IF AlreadyNormalized(p) THEN p
    ELSE IF StartsWithBlob(p) THEN p
    ELSE IF StartsWithData(p)
         THEN IF p.src = "ok" THEN ImagesPath(GeneratedName(k)) ELSE p
    ELSE IF IsAbsolute(p)
         THEN IF p.src = "ok"
              THEN [kind |-> "absolute", name |-> GeneratedName(k), src |-> "ok"]
              ELSE p
    ELSE ImagesPath(p.name)

\* One pass of the loop body of _normalize_image_paths over an image reference
\* p, k being the identifier drawn by uuid.uuid4(): the new reference.
NormalizeOnePath(p, k) ==
    IF AlreadyNormalized(p) THEN p
    ELSE IF StartsWithBlob(p) THEN p
    ELSE IF StartsWithData(p)
         THEN IF p.src = "ok" THEN ImagesPath(GeneratedName(k)) ELSE p
    ELSE IF IsAbsolute(p)
         THEN IF p.src = "ok" THEN ImagesPath(GeneratedName(k)) ELSE p
    ELSE ImagesPath(p.name)

\* Whether that pass writes a file into output_images_dir.
WritesFile(p) ==
    /\ ~AlreadyNormalized(p)
    /\ ~StartsWithBlob(p)
    /\ (StartsWithData(p) \/ IsAbsolute(p))
    /\ p.src = "ok"

\* _normalize_image_paths(elements, dir), folded over the stream from element
\* i on: st is [els, uuid, files], the fragments, the identifiers drawn so far
\* and the names of the files written.
RECURSIVE NormalizeFrom(_, _)
NormalizeFrom(st, i) ==
    IF i > Len(st.els) THEN st
    ELSE LET e == st.els[i]
         IN  IF e.type # "image" \/ e.image_path.kind = "none"
             THEN NormalizeFrom(st, i + 1)
             ELSE IF AlreadyNormalized(e.image_path)
             THEN NormalizeFrom(st, i + 1)
             ELSE LET k == st.uuid + 1
                      p == NormalizeOnePath(e.image_path, k)
                  IN  NormalizeFrom(
                        [els   |-> [st.els EXCEPT ![i].image_path = p],
                         uuid  |-> k,
                         files |-> IF WritesFile(e.image_path)
                                   THEN st.files \cup {p.name} ELSE st.files],
                        i + 1)

\* _normalize_image_paths leaving the stream alone when the directory already
\* holds files
normalize_image_paths_once(els, uuid, files) ==
    IF files # {} THEN [els |-> els, uuid |-> uuid, files |-> files]
    ELSE NormalizeFrom([els |-> els, uuid |-> uuid, files |-> files], 1)

normalize_image_paths(els, uuid, files) ==
    NormalizeFrom([els |-> els, uuid |-> uuid, files |-> files], 1)

\* ------------------------------------------------- lines and paragraphs
\* Fragments are named by their position in the stream handed to
\* build_lecture (the code holds references to the same objects).

\* A sort key of (page_number, x0), without normalize_y
KeyLessWithoutY(a, b) ==
    \/ a.page_number < b.page_number
    \/ a.page_number = b.page_number /\ a.bbox[1] < b.bbox[1]

\* The sort key (page_number, normalize_y, x0) of sorted(elements, key=...).
KeyLess(a, b) ==
    \/ a.page_number < b.page_number
    \/ /\ a.page_number = b.page_number
       /\ \/ normalize_y(a.bbox) < normalize_y(b.bbox)
          \/ /\ normalize_y(a.bbox) = normalize_y(b.bbox)
             /\ a.bbox[1] < b.bbox[1]

\* Stable insertion: i goes after every position whose key is not greater.
RECURSIVE InsertByKey(_, _, _)
InsertByKey(els, s, i) ==
    IF s = <<>> THEN <<i>>
    ELSE IF KeyLess(els[i], els[Head(s)]) THEN <<i>> \o s
    ELSE <<Head(s)>> \o InsertByKey(els, Tail(s), i)

RECURSIVE SortFrom(_, _, _)
SortFrom(els, s, i) ==
    IF i > Len(els) THEN s ELSE SortFrom(els, InsertByKey(els, s, i), i + 1)

\* The fragments left in stream order, as stream positions
unsorted_elements(els) == [i \in 1..Len(els) |-> i]

\* sorted_elements, as stream positions
sorted_elements(els) == SortFrom(els, <<>>, 1)

line_id(e) == <<e.page_number, normalize_y(e.bbox)>>

\* The line-grouping loop: order is what is left of sorted_elements, lines the
\* closed lines, cur the open one.
RECURSIVE GroupLines(_, _, _, _)
GroupLines(els, order, lines, cur) ==
    IF order = <<>> THEN (IF cur # <<>> THEN Append(lines, cur) ELSE lines)
    ELSE LET i == Head(order)
             e == els[i]
         IN  IF e.type # "text" \/ e.text = <<>>
             THEN GroupLines(els, Tail(order), lines, cur)
             ELSE IF cur = <<>> \/ line_id(e) # line_id(els[cur[1]])
             THEN GroupLines(els, Tail(order),
                             IF cur # <<>> THEN Append(lines, cur) ELSE lines, <<i>>)
             ELSE GroupLines(els, Tail(order), lines, Append(cur, i))

\* lines, each a sequence of stream positions
LinesOf(els) == GroupLines(els, sorted_elements(els), <<>>, <<>>)

\* Gap between a line and the one before it: y0 of the line's first span
\* minus y1 of the previous line's first span.
LineGap(els, prev, line) == els[line[1]].bbox[2] - els[prev[1]].bbox[4]

\* vertical_gaps: the gaps of consecutive same-page lines that are > 0, < 100
RECURSIVE GapsFrom(_, _, _)
GapsFrom(els, lines, i) ==
    IF i > Len(lines) THEN <<>>
    ELSE LET gap == LineGap(els, lines[i - 1], lines[i])
             keep == /\ els[lines[i][1]].page_number = els[lines[i - 1][1]].page_number
                     /\ gap > 0
                     /\ gap < GapOutlier
         IN  (IF keep THEN <<gap>> ELSE <<>>) \o GapsFrom(els, lines, i + 1)

vertical_gaps(els, lines) == GapsFrom(els, lines, 2)

\* Ascending insertion sort of integers
RECURSIVE InsertInt(_, _)
InsertInt(s, x) ==
    IF s = <<>> THEN <<x>>
    ELSE IF x < Head(s) THEN <<x>> \o s
    ELSE <<Head(s)>> \o InsertInt(Tail(s), x)

RECURSIVE SortInts(_)
SortInts(s) == IF s = <<>> THEN <<>> ELSE InsertInt(SortInts(Tail(s)), Head(s))

\* Twice statistics.median(s), s not empty: an integer.
Median2(s) ==
    LET t == SortInts(s)
        n == Len(t)
    IN  IF n % 2 = 1 THEN 2 * t[(n + 1) \div 2] ELSE t[n \div 2] + t[n \div 2 + 1]

\* 1.3 and 1.2, in tenths: max(median_gap * 1.3, avg_gap * 1.2)
SignificantMedianFactor == 13

SignificantMeanFactor == 12

\* The gap statistics [med2, sum, n]: twice the median, and the mean as sum / n
\* (15.0 for both when no gap qualifies).
GapStats(gaps) ==
    IF gaps = <<>> THEN [med2 |-> 2 * DefaultGap, sum |-> DefaultGap, n |-> 1]
    ELSE [med2 |-> Median2(gaps), sum |-> SumSeq(gaps), n |-> Len(gaps)]

\* Properties of a line (a non-empty sequence of stream positions)
LineFontSum(els, line) == SumSeq([k \in 1..Len(line) |-> els[line[k]].font_size])

LineIsBold(els, line) == \A k \in 1..Len(line) : els[line[k]].is_bold

LineText(els, line) == Strip(JoinSpace([k \in 1..Len(line) |-> els[line[k]].text]))

LinePage(els, line) == els[line[1]].page_number

\* basic_conditions_met with the gap limit at 10 units
basic_conditions_met_gap_10(els, prev, line) ==
    /\ LinePage(els, line) = LinePage(els, prev)
    /\ LineGap(els, prev, line) < 100
    /\ Abs(LineFontSum(els, line) * Len(prev) - LineFontSum(els, prev) * Len(line))
         < FontDiffMax * Len(line) * Len(prev)
    /\ LineIsBold(els, line) = LineIsBold(els, prev)

\* basic_conditions_met
basic_conditions_met(els, prev, line) ==
    /\ LinePage(els, line) = LinePage(els, prev)
    /\ LineGap(els, prev, line) < GapBasic
    /\ Abs(LineFontSum(els, line) * Len(prev) - LineFontSum(els, prev) * Len(line))
         < FontDiffMax * Len(line) * Len(prev)
    /\ LineIsBold(els, line) = LineIsBold(els, prev)

\* significant_gap
significant_gap(gap, st) ==
    /\ gap > 0
    /\ 2 * 10 * gap > SignificantMedianFactor * st.med2
    /\ 10 * st.n * gap > SignificantMeanFactor * st.sum

\* heuristic_new_paragraph
heuristic_new_paragraph(els, prev, line) ==
    /\ StartsUpper(LineText(els, line))
    /\ LET t == LineText(els, prev)
       IN  EndsWith(t, ".") \/ EndsWith(t, "!") \/ EndsWith(t, "?")
    /\ LineGap(els, prev, line) > GapSentence

\* very_large_gap
very_large_gap(gap) == gap > GapVeryLarge

\* The decision taken on page and style alone, no gap looked at
ContinuesParagraphStyleOnly(els, prev, line, st) ==
    /\ LinePage(els, line) = LinePage(els, prev)
    /\ Abs(LineFontSum(els, line) * Len(prev) - LineFontSum(els, prev) * Len(line))
         < FontDiffMax * Len(line) * Len(prev)
    /\ LineIsBold(els, line) = LineIsBold(els, prev)

\* The decision of lines 385-388: the line continues the open paragraph.
ContinuesParagraph(els, prev, line, st) ==
    /\ basic_conditions_met(els, prev, line)
    /\ ~significant_gap(LineGap(els, prev, line), st)
    /\ ~heuristic_new_paragraph(els, prev, line)
    /\ ~very_large_gap(LineGap(els, prev, line))

\* The paragraph loop: from line i on, paras the closed paragraphs (each a
\* sequence of lines), cur the open one.
RECURSIVE AssembleFrom(_, _, _, _, _, _)
AssembleFrom(els, lines, st, i, paras, cur) ==
    IF i > Len(lines) THEN (IF cur # <<>> THEN Append(paras, cur) ELSE paras)
    ELSE IF cur = <<>> THEN AssembleFrom(els, lines, st, i + 1, paras, <<lines[i]>>)
    ELSE IF ContinuesParagraph(els, cur[Len(cur)], lines[i], st)
         THEN AssembleFrom(els, lines, st, i + 1, paras, Append(cur, lines[i]))
         ELSE AssembleFrom(els, lines, st, i + 1, Append(paras, cur), <<lines[i]>>)

\* The groups of lines, one per paragraph, in the order they are closed.
ParagraphLines(els) ==
    LET lines == LinesOf(els)
    IN  AssembleFrom(els, lines, GapStats(vertical_gaps(els, lines)), 1, <<>>, <<>>)

MinOf(S) == CHOOSE x \in S : \A y \in S : x <= y

MaxOf(S) == CHOOSE x \in S : \A y \in S : x >= y

\* _create_paragraph_dict(lines, num_lines) for a non-empty group of lines.
\* avg_font_size is the rational fs_sum / fs_cnt.
create_paragraph_dict(els, plines) ==
    LET spans == Concat(plines)
        idx == 1..Len(spans)
    IN  [type |-> "text",
         spans |-> spans,
         text |-> JoinSpace([k \in idx |-> els[spans[k]].text]),
         fs_sum |-> SumSeq([k \in idx |-> els[spans[k]].font_size]),
         fs_cnt |-> Len(spans),
         is_bold |-> \A k \in idx : els[spans[k]].is_bold,
         bbox |-> << MinOf({els[spans[k]].bbox[1] : k \in idx}),
                     MinOf({els[spans[k]].bbox[2] : k \in idx}),
                     MaxOf({els[spans[k]].bbox[3] : k \in idx}),
                     MaxOf({els[spans[k]].bbox[4] : k \in idx}) >>,
         page_number |-> els[spans[1]].page_number,
         is_header |-> FALSE,
         header_level |-> 0,
         num_lines |-> Len(plines),
         global_index |-> -1]

\* A key of paragraphs.sort without the page number: bbox[1] alone
ParaLessByTop(a, b) == a.bbox[2] < b.bbox[2]

\* The key of paragraphs.sort: (page_number, bbox[1])
ParaLess(a, b) ==
    \/ a.page_number < b.page_number
    \/ a.page_number = b.page_number /\ a.bbox[2] < b.bbox[2]

RECURSIVE InsertPara(_, _)
InsertPara(s, p) ==
    IF s = <<>> THEN <<p>>
    ELSE IF ParaLess(p, Head(s)) THEN <<p>> \o s
    ELSE <<Head(s)>> \o InsertPara(Tail(s), p)

RECURSIVE SortParasFrom(_, _, _)
SortParasFrom(ps, s, i) ==
    IF i > Len(ps) THEN s ELSE SortParasFrom(ps, InsertPara(s, ps[i]), i + 1)

\* paragraphs.sort(key=...): stable
SortParagraphs(ps) == SortParasFrom(ps, <<>>, 1)

\* global_index is given by enumerate (from 0) BEFORE the sort.
WithGlobalIndex(ps) == [k \in 1..Len(ps) |-> [ps[k] EXCEPT !.global_index = k - 1]]

\* _normalize_elements_to_paragraphs(elements): the paragraphs
normalize_elements_to_paragraphs(els) ==
    LET groups == ParagraphLines(els)
    IN  SortParagraphs(WithGlobalIndex(
            [k \in 1..Len(groups) |-> create_paragraph_dict(els, groups[k])]))

\* ... and the images, in sorted order, as stream positions
ImagesOf(els) ==
    LET so == sorted_elements(els)
    IN  SelectSeq(so, LAMBDA i : els[i].type = "image")

\* --------------------------------------------------------------- headers
\* Paragraph mean font sizes are rationals fs_sum / fs_cnt; Scaled(ps, k) is
\* paragraph k's mean times the common denominator (the product of all fs_cnt).
RECURSIVE ProdSeq(_)
ProdSeq(s) == IF s = <<>> THEN 1 ELSE Head(s) * ProdSeq(Tail(s))

Denominator(ps) == ProdSeq([k \in 1..Len(ps) |-> ps[k].fs_cnt])

Scaled(ps, k) == ps[k].fs_sum * (Denominator(ps) \div ps[k].fs_cnt)

\* The font statistics of build_lecture, lines 66-72, over the text paragraphs:
\* n samples, their sum, twice their median, and q, the sum of the squares of
\* (n * sample - sum), so that mean = sum / n and
\* stdev^2 = q / (n^2 * (n - 1)); stdev is 0 for one sample.
FontStats(ps) ==
    LET a == [k \in 1..Len(ps) |-> Scaled(ps, k)]
        n == Len(ps)
        sum == SumSeq(a)
    IN  [n |-> n, sum |-> sum, med2 |-> Median2(a),
         q |-> SumSeq([k \in 1..n |-> (n * a[k] - sum) * (n * a[k] - sum)])]

\* The statistics before lines 66-72 have run
NoStats == [n |-> 0, sum |-> 0, med2 |-> 0, q |-> 0]

\* avg >= header_threshold, header_threshold being
\* max(median * 1.3, mean + 1.5 * stdev); a is the scaled mean of the paragraph.
AtLeastThreshold(a, fs) ==
    /\ 20 * a >= 13 * fs.med2
    /\ fs.n * a - fs.sum >= 0
    /\ 4 * (fs.n - 1) * (fs.n * a - fs.sum) * (fs.n * a - fs.sum) >= 9 * fs.q

\* avg >= header_threshold * 1.5
AtLeastThresholdTimesOneAndHalf(a, fs) ==
    /\ 40 * a >= 39 * fs.med2
    /\ 2 * fs.n * a - 3 * fs.sum >= 0
    /\ 4 * (fs.n - 1) * (2 * fs.n * a - 3 * fs.sum) * (2 * fs.n * a - 3 * fs.sum)
         >= 81 * fs.q

\* avg >= median_font_size * 0.9
AtLeastNineTenthsMedian(a, fs) == 20 * a >= 9 * fs.med2

\* Rule 1 (lines 508-516): the level it gives, 0 when it does not apply
Rule1Level(ps, k, fs) ==
    LET text == Strip(ps[k].text)
        a == Scaled(ps, k)
    IN  IF /\ AtLeastThreshold(a, fs)
           /\ ps[k].num_lines <= HeaderMaxLines
           /\ Len(text) <= HeaderMaxChars
        THEN IF AtLeastThresholdTimesOneAndHalf(a, fs) THEN 1 ELSE 2
        ELSE 0

\* Rule 2 (lines 519-524)
Rule2Level(ps, k) ==
    IF /\ ps[k].is_bold
       /\ ps[k].num_lines <= HeaderMaxLines
       /\ Len(Strip(ps[k].text)) <= HeaderMaxChars
    THEN 1 ELSE 0

\* Rule 3 (lines 527-542)
Rule3Level(ps, k, fs) ==
    LET text == Strip(ps[k].text)
    IN  IF /\ Len(text) <= Rule3MaxChars
           /\ Len(text) > Rule3MinChars
           /\ StartsUpper(text)
           /\ ~EndsWith(text, ".")
           /\ ~EndsWith(text, ",")
           /\ AtLeastNineTenthsMedian(Scaled(ps, k), fs)
           /\ k > 1
           /\ ps[k].bbox[2] - ps[k - 1].bbox[4] > Rule3Gap
        THEN 1 ELSE 0

\* The level of paragraph k with rule 2 consulted before rule 1
HeaderLevelBoldFirst(ps, k, fs) ==
    IF Strip(ps[k].text) = <<>> THEN 0
    ELSE IF Rule2Level(ps, k) # 0 THEN Rule2Level(ps, k)
    ELSE IF Rule1Level(ps, k, fs) # 0 THEN Rule1Level(ps, k, fs)
    ELSE Rule3Level(ps, k, fs)

\* The level of paragraph k: the rules in order, each consulted only when
\* the ones before it did not make the paragraph a header.
HeaderLevel(ps, k, fs) ==
    IF Strip(ps[k].text) = <<>> THEN 0
    ELSE IF Rule1Level(ps, k, fs) # 0 THEN Rule1Level(ps, k, fs)
    ELSE IF Rule2Level(ps, k) # 0 THEN Rule2Level(ps, k)
    ELSE Rule3Level(ps, k, fs)

IndexOf(t, c) == IF \E i \in 1..Len(t) : t[i] = c
                 THEN MinOf({i \in 1..Len(t) : t[i] = c}) ELSE 0

LastIndexOf(t, c) == IF \E i \in 1..Len(t) : t[i] = c
                     THEN MaxOf({i \in 1..Len(t) : t[i] = c}) ELSE 0

\* s.rsplit(' ', 1)[0]
RSplitFirst(t) ==
    IF LastIndexOf(t, " ") = 0 THEN t ELSE SubSeq(t, 1, LastIndexOf(t, " ") - 1)

\* header_text (lines 546-550) of the stripped paragraph text
HeaderText(text) ==
    IF IndexOf(text, "\n") # 0 THEN Strip(SubSeq(text, 1, IndexOf(text, "\n") - 1))
    ELSE IF Len(text) > TitleMaxChars
         THEN Strip(RSplitFirst(SubSeq(text, 1, TitleMaxChars)))
    ELSE text

\* _identify_headers_from_paragraphs: the paragraphs with is_header and
\* header_level set ...
FlagHeaders(ps, fs) ==
    [k \in 1..Len(ps) |->
        IF HeaderLevel(ps, k, fs) # 0
        THEN [ps[k] EXCEPT !.is_header = TRUE, !.header_level = HeaderLevel(ps, k, fs)]
        ELSE ps[k]]

\* ... and the headers list, in paragraph order: index is the paragraph's
\* global_index, para its position in the list (the 'paragraph' reference).
RECURSIVE HeadersFrom(_, _, _)
HeadersFrom(ps, fs, k) ==
    IF k > Len(ps) THEN <<>>
    ELSE (IF HeaderLevel(ps, k, fs) # 0
          THEN << [index |-> ps[k].global_index,
                   level |-> HeaderLevel(ps, k, fs),
                   text  |-> HeaderText(Strip(ps[k].text)),
                   para  |-> k] >>
          ELSE <<>>) \o HeadersFrom(ps, fs, k + 1)

identify_headers_from_paragraphs(ps) == HeadersFrom(ps, FontStats(ps), 1)

\* -------------------------------------------------------------- metadata
\* _extract_lecture_title_from_paragraphs
PlaceholderTitle == <<"L">>

SectionTitle == <<"C">>

FirstPageTitle == <<"P", "1">>

extract_lecture_title(ps, headers) ==
    LET l1 == SelectSeq(headers, LAMBDA h : h.level = 1)
        short == {k \in 1..Len(ps) : Strip(ps[k].text) # <<>>
                                      /\ Len(Strip(ps[k].text)) < TitleParaMaxChars}
    IN  IF l1 # <<>> THEN l1[1].text
        ELSE IF headers # <<>> THEN headers[1].text
        ELSE IF short # {} THEN Strip(ps[MinOf(short)].text)
        ELSE PlaceholderTitle

\* ----------------------------------------------------------------- pages
\* A ContentBlock.  A Text block: content is the paragraph text, source the
\* global_index of params["source_paragraph"], y0 / y1 that paragraph's top and
\* bottom.  An Image block: path is its content, source the stream position of
\* the image fragment it was made from, y0 / y1 the fragment's top and bottom.
TextBlock(para) ==
    [type |-> "text", content |-> para.text, bold |-> para.is_bold, path |-> NoPath,
     source |-> para.global_index, y0 |-> para.bbox[2], y1 |-> para.bbox[4]]

\* The path of an ImageBlock (lines 896-900 and 1007-1012)
BlockPath(p) == IF StartsWithImages(p) THEN p ELSE ImagesPath(p.name)

ImageBlock(els, i) ==
    [type |-> "image", content |-> <<>>, path |-> BlockPath(els[i].image_path),
     source |-> i, y0 |-> els[i].bbox[2], y1 |-> els[i].bbox[4]]

\* Python's seq[a:b] for 0 <= a, 0 <= b
Slice(s, a, b) == SubSeq(s, a + 1, Min2(b, Len(s)))

\* s[i] = x in place of list.insert(i, x): the element at i is overwritten
InsertAtOverwriting(s, i, x) ==
    IF i >= Len(s) THEN Append(s, x)
    ELSE SubSeq(s, 1, i) \o <<x>> \o SubSeq(s, i + 2, Len(s))

\* list.insert(i, x) for 0 <= i
InsertAt(s, i, x) ==
    IF i >= Len(s) THEN Append(s, x)
    ELSE SubSeq(s, 1, i) \o <<x>> \o SubSeq(s, i + 1, Len(s))

\* is_header_para that knows level-1 headers only
is_header_para_level_1_only(para, headers) == para.is_header /\ para.header_level = 1

\* is_header_para (line 755)
is_header_para(para, headers) ==
    para.is_header \/ \E k \in 1..Len(headers) : headers[k].index = para.global_index

\* text_paragraphs of a page (lines 745-760)
text_paragraphs(pps, headers) ==
    SelectSeq(pps, LAMBDA para : para.type = "text" /\ ~is_header_para(para, headers))

\* page_images (lines 778-785), as stream positions, images being all_images
page_images(els, pps, images) ==
    IF pps = <<>> THEN <<>>
    ELSE SelectSeq(images, LAMBDA i :
            /\ pps[1].page_number <= els[i].page_number
            /\ els[i].page_number <= pps[Len(pps)].page_number)

\* page_height (lines 789-796)
page_height(pps) ==
    IF pps = <<>> THEN DefaultPageHeight
    ELSE LET max_y == MaxOf({pps[k].bbox[4] : k \in 1..Len(pps)})
         IN  IF max_y > 0 THEN max_y ELSE DefaultPageHeight

\* page_images.sort(key = bbox[1]): stable
RECURSIVE InsertImage(_, _, _)
InsertImage(els, s, i) ==
    IF s = <<>> THEN <<i>>
    ELSE IF els[i].bbox[2] < els[Head(s)].bbox[2] THEN <<i>> \o s
    ELSE <<Head(s)>> \o InsertImage(els, Tail(s), i)

RECURSIVE SortImagesFrom(_, _, _, _)
SortImagesFrom(els, imgs, s, k) ==
    IF k > Len(imgs) THEN s
    ELSE SortImagesFrom(els, imgs, InsertImage(els, s, imgs[k]), k + 1)

SortImages(els, imgs) == SortImagesFrom(els, imgs, <<>>, 1)

\* is_very_large (lines 819-824): img_height / page_height * 100 > 60
is_very_large(e, height) ==
    height > 0 /\ 100 * (e.bbox[4] - e.bbox[2]) > LargeImagePercent * height

\* has_nearby_text counting a distance of exactly 100 units as near
has_nearby_text_inclusive(e, tps) ==
    \E k \in 1..Len(tps) :
        Abs((e.bbox[2] + e.bbox[4]) - (tps[k].bbox[2] + tps[k].bbox[4]))
            <= 2 * NearTextDistance

\* has_nearby_text (lines 828-838): centers are compared doubled
has_nearby_text(e, tps) ==
    \E k \in 1..Len(tps) :
        Abs((e.bbox[2] + e.bbox[4]) - (tps[k].bbox[2] + tps[k].bbox[4]))
            < 2 * NearTextDistance

\* The image is passed over (lines 803-843)
ImageSkipped(e, tps, height) ==
    \/ e.image_path.kind = "none"
    \/ StartsWithBlob(e.image_path)
    \/ is_very_large(e, height) /\ ~has_nearby_text(e, tps)

\* The scan of lines 851-888: next_para_found is never set, so the outer loop
\* stops at the first Text block whose paragraph ends at or above the image's
\* top.  The 0-based index of that block, -1 for None.
target_by_scan(blocks, e) ==
    LET hits == {i \in 1..Len(blocks) :
                    blocks[i].type = "text" /\ e.bbox[2] >= blocks[i].y1}
    IN  IF hits = {} THEN -1 ELSE MinOf(hits) - 1

\* _find_nearest_text_block_for_image giving None at a distance of exactly
\* 300 units as well
find_nearest_text_block_below_limit(blocks, e) ==
    LET texts == {i \in 1..Len(blocks) : blocks[i].type = "text"}
        dist(i) == Abs((blocks[i].y0 + blocks[i].y1) - (e.bbox[2] + e.bbox[4]))
        best == {i \in texts : \A j \in texts : dist(i) <= dist(j)}
    IN  IF texts = {} THEN -1
        ELSE IF dist(MinOf(best)) >= 2 * NearestMaxDistance THEN -1
        ELSE MinOf(best) - 1

\* _find_nearest_text_block_for_image: 0-based index, -1 for None
find_nearest_text_block_for_image(blocks, e) ==
    LET texts == {i \in 1..Len(blocks) : blocks[i].type = "text"}
        dist(i) == Abs((blocks[i].y0 + blocks[i].y1) - (e.bbox[2] + e.bbox[4]))
        best == {i \in texts : \A j \in texts : dist(i) <= dist(j)}
    IN  IF texts = {} THEN -1
        ELSE IF dist(MinOf(best)) > 2 * NearestMaxDistance THEN -1
        ELSE MinOf(best) - 1

\* One pass of the loop of line 801 over image i: the page's blocks after it
PlaceImage(els, blocks, i, tps, height) ==
    IF ImageSkipped(els[i], tps, height) THEN blocks
    ELSE LET scan == target_by_scan(blocks, els[i])
             target == IF scan # -1 THEN scan
                       ELSE find_nearest_text_block_for_image(blocks, els[i])
         IN  IF target # -1 THEN InsertAt(blocks, target + 1, ImageBlock(els, i))
             ELSE Append(blocks, ImageBlock(els, i))

RECURSIVE PlaceImages(_, _, _, _, _)
PlaceImages(els, blocks, imgs, tps, height) ==
    IF imgs = <<>> THEN blocks
    ELSE PlaceImages(els, PlaceImage(els, blocks, Head(imgs), tps, height),
                     Tail(imgs), tps, height)

\* _build_single_page_from_paragraphs.  pps is the list of paragraphs handed
\* in; the page record keeps their global_index values in `paras` (the code
\* keeps them reachable through each block's source_paragraph only).
build_single_page_from_paragraphs(els, pps, title, order, headers, images) ==
    LET tps == text_paragraphs(pps, headers)
    IN  [title |-> title, order |-> order,
         paras |-> [k \in 1..Len(pps) |-> pps[k].global_index],
         content_blocks |->
            PlaceImages(els, [k \in 1..Len(tps) |-> TextBlock(tps[k])],
                        SortImages(els, page_images(els, pps, images)),
                        tps, page_height(pps))]

\* level_1_headers without the fall-back to all headers
level_1_headers_no_fallback(headers) == SelectSeq(headers, LAMBDA h : h.level = 1)

\* level_1_headers (lines 689-693)
level_1_headers(headers) ==
    LET l1 == SelectSeq(headers, LAMBDA h : h.level = 1)
    IN  IF l1 = <<>> THEN headers ELSE l1

\* The loop of lines 697-719 with every page running to the end of the list
RECURSIVE PagesFromToEnd(_, _, _, _, _, _, _)
PagesFromToEnd(els, ps, headers, l1, images, k, counter) ==
    IF k > Len(l1) THEN <<>>
    ELSE LET pps == Slice(ps, l1[k].index, Len(ps))
         IN  IF pps = <<>>
             THEN PagesFromToEnd(els, ps, headers, l1, images, k + 1, counter)
             ELSE << build_single_page_from_paragraphs(
                        els, pps, SubSeq(Strip(l1[k].text), 1,
                                         Min2(TitleMaxChars, Len(Strip(l1[k].text)))),
                        counter, headers, images) >>
                  \o PagesFromToEnd(els, ps, headers, l1, images, k + 1, counter + 1)

\* The loop of lines 697-719 from header k on
RECURSIVE PagesFrom(_, _, _, _, _, _, _)
PagesFrom(els, ps, headers, l1, images, k, counter) ==
    IF k > Len(l1) THEN <<>>
    ELSE LET next == IF k + 1 <= Len(l1) THEN l1[k + 1].index ELSE Len(ps)
             pps == Slice(ps, l1[k].index, next)
         IN  IF pps = <<>>
             THEN PagesFrom(els, ps, headers, l1, images, k + 1, counter)
             ELSE << build_single_page_from_paragraphs(
                        els, pps, SubSeq(Strip(l1[k].text), 1,
                                         Min2(TitleMaxChars, Len(Strip(l1[k].text)))),
                        counter, headers, images) >>
                  \o PagesFrom(els, ps, headers, l1, images, k + 1, counter + 1)

\* _build_sections_from_paragraphs: always one section
build_sections_from_paragraphs(els, ps, headers, images) ==
    << [title |-> SectionTitle, order |-> 1,
        pages |-> IF headers = <<>>
                  THEN << build_single_page_from_paragraphs(
                             els, ps, FirstPageTitle, 1, headers, images) >>
                  ELSE PagesFrom(els, ps, headers, level_1_headers(headers),
                                 images, 1, 1)] >>

\* _build_lecture_from_images_only walking the sorted images, not the stream
build_lecture_from_images_only_sorted(els) ==
    LET keep == SelectSeq(ImagesOf(els), LAMBDA i :
                    /\ els[i].image_path.kind # "none"
                    /\ ~StartsWithBlob(els[i].image_path))
    IN  [title |-> PlaceholderTitle, description |-> <<>>,
         sections |-> << [title |-> SectionTitle, order |-> 1,
                          pages |-> << [title |-> FirstPageTitle, order |-> 1,
                                        paras |-> <<>>,
                                        content_blocks |->
                                          [k \in 1..Len(keep) |->
                                              ImageBlock(els, keep[k])]] >>] >>]

\* _build_lecture_from_images_only(elements)
build_lecture_from_images_only(els) ==
    LET keep == SelectSeq([k \in 1..Len(els) |-> k], LAMBDA i :
                    /\ els[i].type = "image"
                    /\ els[i].image_path.kind # "none"
                    /\ ~StartsWithBlob(els[i].image_path))
    IN  [title |-> PlaceholderTitle, description |-> <<>>,
         sections |-> << [title |-> SectionTitle, order |-> 1,
                          pages |-> << [title |-> FirstPageTitle, order |-> 1,
                                        paras |-> <<>>,
                                        content_blocks |->
                                          [k \in 1..Len(keep) |->
                                              ImageBlock(els, keep[k])]] >>] >>]

\* ------------------------------------------------------------ build_lecture
VARIABLES
    elements,     \* the fragment stream handed to build_lecture (mutated in place)
    pc,           \* where build_lecture is
    images_dir,   \* whether output_images_dir exists
    files,        \* the names of the files written into output_images_dir
    uuid,         \* how many identifiers uuid.uuid4() has given
    paragraphs,   \* the paragraph list
    images,       \* the image fragments, as stream positions, in sorted order
    headers,      \* the headers list
    lecture,      \* the Lecture returned
    error,        \* the exception raised, "none" when there is none
    font_stats,   \* the statistics behind header_threshold and median_font_size
    spc,          \* where SCORMBuilder.build_from_lecture is
    package_dir,  \* whether <output_dir>/<title>_scorm_package exists
    staged,       \* the files and directories inside package_dir
    present,      \* the image file names whose source file the builder finds
    cursor,       \* the position of the loop the builder is in
    image_files,  \* image_files: the file names copied, in order
    page_files,   \* page_files: the indexes of the page documents written
    page_html,    \* the content_html of the page documents written, in order
    zip_file,     \* whether <output_dir>/<title>_SCORM_2004.zip exists
    zip_members,  \* the members written to the archive, in order
    scorm_error,  \* the exception build_from_lecture raises, "none" if none
    threshold,    \* config['progressCompletion']['completionThreshold']
    page_ids,     \* the id of every Page, in document order
    manifest      \* the manifest tree of _create_manifest_from_lecture

lecture_vars == <<elements, pc, images_dir, files, uuid, paragraphs, images,
                  headers, lecture, error, font_stats>>

manifest_vars == <<threshold, page_ids, manifest>>

scorm_vars == <<spc, package_dir, staged, present, cursor, image_files,
                page_files, page_html, zip_file, zip_members, scorm_error,
                manifest_vars>>

vars == <<lecture_vars, scorm_vars>>

NoLecture == [title |-> <<>>, description |-> <<>>, sections |-> <<>>]

\* A completion threshold is [type, v]: the number v, a value that is no
\* number, or no value at all (None, or a config without the key).
NoThreshold == [type |-> "none", v |-> 0]

NoManifest == [items |-> <<>>, resources |-> <<>>]

\* The streams of at most MaxLen fragments drawn from a palette
Streams(palette) == UNION {[1..n -> palette] : n \in 0..MaxLen}

InitWith(palette) ==
    /\ elements \in Streams(palette)
    /\ pc = "call"
    /\ images_dir = FALSE
    /\ files = {}
    /\ uuid = 0
    /\ paragraphs = <<>>
    /\ images = <<>>
    /\ headers = <<>>
    /\ lecture = NoLecture
    /\ error = "none"
    /\ font_stats = NoStats
    /\ spc = "idle"
    /\ package_dir = FALSE
    /\ staged = {}
    /\ present = {}
    /\ cursor = 0
    /\ image_files = <<>>
    /\ page_files = <<>>
    /\ page_html = <<>>
    /\ zip_file = FALSE
    /\ zip_members = <<>>
    /\ scorm_error = "none"
    /\ threshold = NoThreshold
    /\ page_ids = <<>>
    /\ manifest = NoManifest

\* CheckElements making the image directory before it looks at the stream
CheckElementsMkdirFirst ==
    /\ pc = "call"
    /\ images_dir' = TRUE
    /\ IF elements = <<>>
       THEN error' = "ValueError" /\ pc' = "raised"
       ELSE pc' = "normalize_image_paths" /\ UNCHANGED error
    /\ UNCHANGED <<font_stats, elements, files, uuid, paragraphs, images, headers, lecture>>
    /\ UNCHANGED scorm_vars

\* Lines 43-52: the empty stream is refused, otherwise the image directory is
\* made.
CheckElements ==
    /\ pc = "call"
    /\ IF elements = <<>>
       THEN /\ error' = "ValueError"
            /\ pc' = "raised"
            /\ UNCHANGED images_dir
       ELSE /\ images_dir' = TRUE
            /\ pc' = "normalize_image_paths"
            /\ UNCHANGED error
    /\ UNCHANGED <<font_stats, elements, files, uuid, paragraphs, images, headers, lecture>>
    /\ UNCHANGED scorm_vars

\* Line 55
NormalizeImagePaths ==
    /\ pc = "normalize_image_paths"
    /\ LET st == normalize_image_paths(elements, uuid, files)
       IN  /\ elements' = st.els
           /\ uuid' = st.uuid
           /\ files' = st.files
    /\ pc' = "normalize_elements"
    /\ UNCHANGED <<font_stats, images_dir, paragraphs, images, headers, lecture, error>>
    /\ UNCHANGED scorm_vars

\* Lines 58-63
NormalizeElementsToParagraphs ==
    /\ pc = "normalize_elements"
    /\ paragraphs' = normalize_elements_to_paragraphs(elements)
    /\ images' = ImagesOf(elements)
    /\ pc' = IF paragraphs' = <<>> THEN "images_only" ELSE "identify_headers"
    /\ UNCHANGED <<font_stats, elements, images_dir, files, uuid, headers, lecture, error>>
    /\ UNCHANGED scorm_vars

\* Line 63
BuildLectureFromImagesOnly ==
    /\ pc = "images_only"
    /\ lecture' = build_lecture_from_images_only(elements)
    /\ pc' = "returned"
    /\ UNCHANGED <<font_stats, elements, images_dir, files, uuid, paragraphs, images, headers,
                   error>>
    /\ UNCHANGED scorm_vars

\* Lines 66-75
IdentifyHeaders ==
    /\ pc = "identify_headers"
    /\ font_stats' = FontStats(paragraphs)
    /\ headers' = identify_headers_from_paragraphs(paragraphs)
    /\ paragraphs' = FlagHeaders(paragraphs, FontStats(paragraphs))
    /\ pc' = "build_sections"
    /\ UNCHANGED <<elements, images_dir, files, uuid, images, lecture, error>>
    /\ UNCHANGED scorm_vars

\* Lines 78-99
BuildSections ==
    /\ pc = "build_sections"
    /\ lecture' = [title |-> extract_lecture_title(paragraphs, headers),
                   description |-> <<>>,
                   sections |-> build_sections_from_paragraphs(
                                    elements, paragraphs, headers, images)]
    /\ pc' = "returned"
    /\ UNCHANGED <<font_stats, elements, images_dir, files, uuid, paragraphs, images, headers,
                   error>>
    /\ UNCHANGED scorm_vars

Next ==
    \/ CheckElements
    \/ NormalizeImagePaths
    \/ NormalizeElementsToParagraphs
    \/ BuildLectureFromImagesOnly
    \/ IdentifyHeaders
    \/ BuildSections

\* The fragments of the default specification (coordinates in tenths).
Chap == TextEl(<<"C", "h", "a", "p">>, 24, TRUE, 0, 500, 740, 1)

Intro == TextEl(<<"i", "n", "t", "r", "o">>, 18, FALSE, 0, 200, 380, 1)

Body == TextEl(<<"B", "o", "d", "y", ".">>, 12, FALSE, 0, 1000, 1120, 1)

More == TextEl(<<"m", "o", "r", "e", ".">>, 12, FALSE, 0, 1300, 1420, 1)

Last == TextEl(<<"l", "a", "s", "t", ".">>, 12, FALSE, 0, 1600, 1720, 1)

Nextp == TextEl(<<"N", "e", "x", "t">>, 12, TRUE, 0, 500, 620, 2)

ImgFile == ImageEl([kind |-> "absolute", name |-> FileName("a.png"), src |-> "ok"],
                   2000, 2400, 1)

ImgMissing == ImageEl([kind |-> "absolute", name |-> FileName("b.png"),
                       src |-> "missing"], 2500, 2900, 1)

ImgBlob == ImageEl([kind |-> "blob", name |-> FileName("c"), src |-> "ok"],
                   800, 900, 2)

ImgCanon == ImageEl([kind |-> "images", name |-> FileName("d.png"), src |-> "ok"],
                    1000, 1400, 2)

Palette == {Chap, Intro, Body, More, Last, Nextp, ImgFile, ImgMissing, ImgBlob,
            ImgCanon}

Init == InitWith(Palette)

Spec == Init /\ [][Next]_vars

\* ------------------------------------------------------------------ claims
\* All pages of the lecture, in document order
AllPages == Concat([k \in 1..Len(lecture.sections) |-> lecture.sections[k].pages])

\* All content blocks of the lecture
AllBlocks == Concat([k \in 1..Len(AllPages) |-> AllPages[k].content_blocks])

HeaderParagraphs == {k \in DOMAIN paragraphs : paragraphs[k].is_header}

Level1Paragraphs == {k \in HeaderParagraphs : paragraphs[k].header_level = 1}

\* C1, as stated: for a stream with at least one text paragraph the Lecture has
\* exactly one Section, and its number of Pages is the number of paragraphs
\* classified as level-1 headers, or 1 when no paragraph is a header.
C1_PageCountAsStated ==
    (pc = "returned" /\ paragraphs # <<>>) =>
        /\ Len(lecture.sections) = 1
        /\ Len(lecture.sections[1].pages) =
              IF HeaderParagraphs = {} THEN 1 ELSE Cardinality(Level1Paragraphs)

\* C1, amended: one Section; as many Pages as level-1 headers when there is
\* one, else as many as headers of any level when there is one, else 1.
C1_PageCount ==
    (pc = "returned" /\ paragraphs # <<>>) =>
        /\ Len(lecture.sections) = 1
        /\ Len(lecture.sections[1].pages) =
              IF Level1Paragraphs # {} THEN Cardinality(Level1Paragraphs)
              ELSE IF HeaderParagraphs # {} THEN Cardinality(HeaderParagraphs)
              ELSE 1

C1_Witness ==
    /\ pc = "returned"
    /\ Cardinality(Level1Paragraphs) = 2
    /\ Len(AllPages) = 2

\* C2: in the Lecture returned, no Text block has a header paragraph (of any
\* level) as its source.
C2_NoHeaderAsContent ==
    pc = "returned" =>
        \A b \in Range(AllBlocks) :
            b.type = "text" =>
                \A k \in DOMAIN paragraphs :
                    paragraphs[k].global_index = b.source => ~paragraphs[k].is_header

\* A Page built from a level-2 header paragraph and three body paragraphs
C2_Witness ==
    /\ pc = "returned"
    /\ \E pg \in Range(AllPages) :
          /\ \E k \in HeaderParagraphs :
                /\ paragraphs[k].header_level = 2
                /\ paragraphs[k].global_index \in Range(pg.paras)
          /\ Cardinality({j \in DOMAIN pg.content_blocks :
                            pg.content_blocks[j].type = "text"}) = 3

\* C6: build_lecture on the empty stream raises, returns no Lecture, makes no
\* image directory and writes nothing.
C6_EmptyStreamFails ==
    (elements = <<>> /\ pc # "call") =>
        /\ pc = "raised"
        /\ error = "ValueError"
        /\ lecture = NoLecture
        /\ images_dir = FALSE
        /\ files = {}

C6_Witness == pc = "raised" /\ elements = <<>> /\ error = "ValueError"

\* The image fragments the image-only builder can use: a path that is not
\* empty and is no blob: URL.
UsableImages ==
    SelectSeq([k \in 1..Len(elements) |-> k], LAMBDA i :
        /\ elements[i].type = "image"
        /\ elements[i].image_path.kind \notin {"none", "blob"})

\* C7: a non-empty stream without text does not fail; the Lecture has the
\* placeholder title, an empty description, one Section, one Page, and the
\* Page's blocks are one Image block per usable image fragment, in stream
\* order, and nothing else.
C7_ImagesOnly ==
    (pc = "returned" /\ \A i \in DOMAIN elements : elements[i].type = "image") =>
        /\ error = "none"
        /\ lecture.title = PlaceholderTitle
        /\ lecture.description = <<>>
        /\ Len(lecture.sections) = 1
        /\ Len(lecture.sections[1].pages) = 1
        /\ LET blocks == lecture.sections[1].pages[1].content_blocks
           IN  /\ Len(blocks) = Len(UsableImages)
               /\ \A k \in DOMAIN blocks :
                     blocks[k].type = "image" /\ blocks[k].source = UsableImages[k]

C7_Witness ==
    /\ pc = "returned"
    /\ Len(elements) = 3
    /\ \A i \in DOMAIN elements : elements[i].type = "image"
    /\ Len(AllBlocks) = 2
    /\ elements[AllBlocks[1].source].bbox[2] > elements[AllBlocks[2].source].bbox[2]

\* The image fragments whose source normalization could not resolve: the
\* reference is left as it was, a blob: URL, an absolute path or a data: URI.
Unresolved ==
    {i \in DOMAIN elements :
        /\ elements[i].type = "image"
        /\ \/ StartsWithBlob(elements[i].image_path)
           \/ /\ elements[i].image_path.kind \in {"absolute", "data"}
              /\ elements[i].image_path.src # "ok"}

\* C8: an image fragment whose source cannot be resolved is skipped: no Image
\* block of the Lecture comes from it, and after normalization every other
\* image fragment's image_path starts with "images/".
C8_UnresolvedImageSkipped ==
    /\ pc = "returned" =>
          \A b \in Range(AllBlocks) : b.type = "image" => b.source \notin Unresolved
    /\ pc \notin {"call", "raised", "normalize_image_paths"} =>
          \A i \in DOMAIN elements :
              (elements[i].type = "image" /\ i \notin Unresolved)
                => StartsWithImages(elements[i].image_path)

\* ------------------------------------------------- paragraph gap claims
\* Lines at gaps of 2.0, 14.9 and 25.1 units, with and without a sentence
\* boundary, in one and in two styles.
GapFirst == TextEl(<<"a", "a">>, 12, FALSE, 0, 640, 760, 1)

GapBody == TextEl(<<"B", "o", "d", "y", ".">>, 12, FALSE, 0, 780, 900, 1)

GapBodyTail == TextEl(<<"b", "o", "d", "y">>, 12, FALSE, 200, 780, 900, 1)

GapMore == TextEl(<<"m", "o", "r", "e", ".">>, 12, FALSE, 0, 1049, 1169, 1)

GapMoreCap == TextEl(<<"M", "o", "r", "e", ".">>, 12, FALSE, 200, 1049, 1169, 1)

GapLast == TextEl(<<"l", "a", "s", "t">>, 12, FALSE, 0, 1420, 1540, 1)

GapLastBold == TextEl(<<"l", "a", "s", "t">>, 12, TRUE, 200, 1420, 1540, 1)

GapImage == ImageEl([kind |-> "images", name |-> FileName("d.png"), src |-> "ok"],
                    1600, 1700, 1)

GapPalette == {GapFirst, GapBody, GapBodyTail, GapMore, GapMoreCap, GapLast,
               GapLastBold, GapImage}

InitGap == InitWith(GapPalette)

SpecGap == InitGap /\ [][Next]_vars

\* The paragraph list is built
ParagraphsBuilt == pc \in {"identify_headers", "build_sections", "returned"}

\* The position of the paragraph that holds fragment i
ParagraphOf(i) == CHOOSE k \in DOMAIN paragraphs : i \in Range(paragraphs[k].spans)

\* Consecutive lines i - 1 and i are on one page, of one mean font size and of
\* one bold state, and `gap` apart.
SameStyleAtGap(lines, i, gap) ==
    /\ LinePage(elements, lines[i]) = LinePage(elements, lines[i - 1])
    /\ LineFontSum(elements, lines[i]) * Len(lines[i - 1])
         = LineFontSum(elements, lines[i - 1]) * Len(lines[i])
    /\ LineIsBold(elements, lines[i]) = LineIsBold(elements, lines[i - 1])
    /\ elements[lines[i][1]].bbox[2] - elements[lines[i - 1][1]].bbox[4] = gap

Merged(lines, i) == ParagraphOf(lines[i][1]) = ParagraphOf(lines[i - 1][1])

\* C3: consecutive same-page lines of one font size and one bold state whose
\* gap is exactly 25.1 units are in different paragraphs.
C3_Gap251Splits ==
    ParagraphsBuilt =>
        LET lines == LinesOf(elements)
        IN  \A i \in 2..Len(lines) : SameStyleAtGap(lines, i, 251) => ~Merged(lines, i)

C3_Witness ==
    /\ ParagraphsBuilt
    /\ LET lines == LinesOf(elements)
       IN  /\ Len(lines) = 3
           /\ SameStyleAtGap(lines, 3, 251)
           /\ Merged(lines, 2)
           /\ ~Merged(lines, 3)

\* C4, as stated: consecutive same-page lines of one font size and one bold
\* state whose gap is 14.9 units are in one paragraph, whatever the other gaps
\* and whatever the text.
C4_Gap149MergesAsStated ==
    ParagraphsBuilt =>
        LET lines == LinesOf(elements)
        IN  \A i \in 2..Len(lines) : SameStyleAtGap(lines, i, 149) => Merged(lines, i)

\* 14.9 > max(median * 1.3, mean * 1.2) over the document's gaps
Gap149Significant(lines) ==
    LET gaps == vertical_gaps(elements, lines)
    IN  /\ 2 * 10 * 149 > 13 * Median2(gaps)
        /\ 10 * Len(gaps) * 149 > 12 * SumSeq(gaps)

\* Line i starts with an uppercase letter and line i - 1 ends a sentence
SentenceBoundary(lines, i) ==
    LET cur == LineText(elements, lines[i])
        prev == LineText(elements, lines[i - 1])
    IN  /\ cur # <<>> /\ cur[1] \in UpperChars
        /\ prev # <<>> /\ prev[Len(prev)] \in {".", "!", "?"}

\* C4, amended: such lines are in one paragraph exactly when 14.9 is not a
\* significant gap of the document and no sentence boundary lies between them.
C4_Gap149Merges ==
    ParagraphsBuilt =>
        LET lines == LinesOf(elements)
        IN  \A i \in 2..Len(lines) :
                SameStyleAtGap(lines, i, 149) =>
                    (Merged(lines, i) <=>
                        ~Gap149Significant(lines) /\ ~SentenceBoundary(lines, i))

\* Merged at 14.9 while the document has other gaps and the line is capitalized
C4_Witness ==
    /\ ParagraphsBuilt
    /\ LET lines == LinesOf(elements)
       IN  /\ Len(lines) = 3
           /\ SameStyleAtGap(lines, 2, 149)
           /\ StartsUpper(LineText(elements, lines[2]))
           /\ Merged(lines, 2)
           /\ Len(vertical_gaps(elements, lines)) = 2

\* ------------------------------------------------ oversized image claims
\* A header, a paragraph near the top of the page and one at its bottom; an
\* image of 70% of the page whose center is 500 units from the bottom paragraph
\* and exactly 100 units from the top one, one of 65%, an oversized one 90
\* units from the top paragraph, a small one, and one on another page.
ImHead == TextEl(<<"C", "h", "a", "p">>, 24, TRUE, 0, 100, 200, 1)

ImTop == TextEl(<<"B", "o", "d", "y", ".">>, 12, FALSE, 0, 2000, 2200, 1)

ImBottom == TextEl(<<"l", "a", "s", "t", ".">>, 12, FALSE, 0, 8000, 8200, 1)

ImSeventy == ImageEl([kind |-> "images", name |-> FileName("a.png"), src |-> "ok"],
                     230, 5970, 1)

ImSixtyFive == ImageEl([kind |-> "images", name |-> FileName("b.png"), src |-> "ok"],
                       100, 5430, 1)

ImNear == ImageEl([kind |-> "images", name |-> FileName("c.png"), src |-> "ok"],
                  2300, 3700, 1)

ImSmall == ImageEl([kind |-> "images", name |-> FileName("d.png"), src |-> "ok"],
                   2300, 2500, 1)

ImOtherPage == ImageEl([kind |-> "images", name |-> FileName("e.png"), src |-> "ok"],
                       2300, 2500, 2)

ImagePalette == {ImHead, ImTop, ImBottom, ImSeventy, ImSixtyFive, ImNear, ImSmall,
                 ImOtherPage}

InitImage == InitWith(ImagePalette)

SpecImage == InitImage /\ [][Next]_vars

\* The paragraph whose global_index is g
ParagraphAt(g) == paragraphs[CHOOSE k \in DOMAIN paragraphs : paragraphs[k].global_index = g]

TextBlocksOf(pg) == {j \in DOMAIN pg.content_blocks : pg.content_blocks[j].type = "text"}

\* Image fragment i belongs to Page pg: its page number lies between those of
\* the Page's first and last paragraph, and its path is usable.
BelongsTo(i, pg) ==
    /\ elements[i].type = "image"
    /\ ~StartsWithBlob(elements[i].image_path)
    /\ pg.paras # <<>>
    /\ ParagraphAt(pg.paras[1]).page_number <= elements[i].page_number
    /\ elements[i].page_number <= ParagraphAt(pg.paras[Len(pg.paras)]).page_number

Placed(i, pg) ==
    \E j \in DOMAIN pg.content_blocks :
        pg.content_blocks[j].type = "image" /\ pg.content_blocks[j].source = i

\* The estimated page height: the largest paragraph bottom of the Page
EstimatedHeight(pg) == MaxOf({ParagraphAt(pg.paras[k]).bbox[4] : k \in DOMAIN pg.paras})

Oversized(i, pg) ==
    100 * (elements[i].bbox[4] - elements[i].bbox[2]) > 60 * EstimatedHeight(pg)

\* Twice the distance between the centers of image i and Text block j
CenterDistance2(i, pg, j) ==
    Abs((elements[i].bbox[2] + elements[i].bbox[4])
          - (pg.content_blocks[j].y0 + pg.content_blocks[j].y1))

\* C5, as stated: on a Page with text blocks, an image of the Page is dropped
\* exactly when it is higher than 60% of the estimated page height and no text
\* block's center lies within 100 units of its center, a center at exactly 100
\* units keeping the image.
C5_OversizedOrphanAsStated ==
    pc = "returned" =>
        \A pg \in Range(AllPages) : \A i \in DOMAIN elements :
            (TextBlocksOf(pg) # {} /\ BelongsTo(i, pg)) =>
                (~Placed(i, pg) <=>
                    /\ Oversized(i, pg)
                    /\ \A j \in TextBlocksOf(pg) : CenterDistance2(i, pg, j) > 2 * 1000)

\* C5, amended: ... and no text block's center lies less than 100 units from
\* its center; a center at exactly 100 units does not keep the image.
C5_OversizedOrphan ==
    pc = "returned" =>
        \A pg \in Range(AllPages) : \A i \in DOMAIN elements :
            (TextBlocksOf(pg) # {} /\ BelongsTo(i, pg)) =>
                (~Placed(i, pg) <=>
                    /\ Oversized(i, pg)
                    /\ \A j \in TextBlocksOf(pg) : CenterDistance2(i, pg, j) >= 2 * 1000)

\* An image of 70% of the page, 500 units from the text, is dropped on a Page
\* that keeps a small image.
C5_Witness ==
    /\ pc = "returned"
    /\ \E pg \in Range(AllPages) : \E i, n \in DOMAIN elements :
          /\ TextBlocksOf(pg) # {}
          /\ BelongsTo(i, pg) /\ Oversized(i, pg) /\ ~Placed(i, pg)
          /\ 100 * (elements[i].bbox[4] - elements[i].bbox[2]) = 70 * EstimatedHeight(pg)
          /\ \A j \in TextBlocksOf(pg) : CenterDistance2(i, pg, j) = 2 * 5000
          /\ BelongsTo(n, pg) /\ ~Oversized(n, pg) /\ Placed(n, pg)

\* ------------------------------------------------ build_from_lecture
\* SCORMBuilder.build_from_lecture(lecture, config, output_dir, parser_temp_dir)
\* is called with the Lecture build_lecture returned.  A file of the staging
\* directory, or a member of the archive, is [kind, n, name].
ManifestFile == [kind |-> "imsmanifest.xml", n |-> 0, name |-> FileName("")]

WrapperFile == [kind |-> "SCORM_API_wrapper.js", n |-> 0, name |-> FileName("")]

\* page_<idx>.html
PageFile(idx) == [kind |-> "page", n |-> idx, name |-> FileName("")]

\* images/<name>
ImageFile(name) == [kind |-> "images", n |-> 0, name |-> name]

\* The images subdirectory of the staging directory
ImagesSubdir == [kind |-> "images/", n |-> 0, name |-> FileName("")]

\* The blocks the copy loop looks at (isinstance(block, ImageBlock) and
\* block.content), in the order of the two nested loops
ImageBlockSeq == SelectSeq(AllBlocks, LAMBDA b : b.type = "image" /\ b.path.kind # "none")

ImageNames == {ImageBlockSeq[k].path.name : k \in DOMAIN ImageBlockSeq}

\* The archive given a member for every block, found or not, copied or not
ZipPlanOfBlocks ==
    <<ManifestFile, WrapperFile>>
      \o [k \in DOMAIN page_files |-> PageFile(page_files[k])]
      \o [k \in DOMAIN ImageBlockSeq |-> ImageFile(ImageBlockSeq[k].path.name)]

\* The members the archive is given, in the order it is given them
ZipPlan ==
    <<ManifestFile, WrapperFile>>
      \o [k \in DOMAIN page_files |-> PageFile(page_files[k])]
      \o [k \in DOMAIN image_files |-> ImageFile(image_files[k])]

StageAfterCopy == IF AllPages = <<>> THEN "wrapper" ELSE "pages"

StageAfterMkdir == IF ImageBlockSeq = <<>> THEN StageAfterCopy ELSE "copy"

\* Lines 78-81: a staging directory left by an earlier call is removed and the
\* directory is made.  The environment decides here which source files exist.
MakePackageDir ==
    /\ pc = "returned"
    /\ spc = "idle"
    /\ \E ok \in BOOLEAN :
          IF ok
          THEN /\ package_dir' = TRUE
               /\ spc' = "images_mkdir"
               /\ UNCHANGED scorm_error
          ELSE /\ package_dir' = FALSE
               /\ spc' = "raised"
               /\ scorm_error' = "OSError"
    /\ staged' = {}
    /\ present' \in SUBSET ImageNames
    /\ UNCHANGED <<cursor, image_files, page_files, page_html, zip_file, zip_members>>
    /\ UNCHANGED lecture_vars
    /\ UNCHANGED manifest_vars

\* Lines 83-84, ahead of the try statement of line 86: an exception here leaves
\* the function at once.
MakeImagesDir ==
    /\ spc = "images_mkdir"
    /\ \E ok \in BOOLEAN :
          IF ok
          THEN /\ staged' = staged \cup {ImagesSubdir}
               /\ spc' = StageAfterMkdir
               /\ cursor' = 1
               /\ UNCHANGED scorm_error
          ELSE /\ spc' = "raised"
               /\ scorm_error' = "OSError"
               /\ UNCHANGED <<staged, cursor>>
    /\ UNCHANGED <<package_dir, present, image_files, page_files, page_html, zip_file,
                   zip_members>>
    /\ UNCHANGED lecture_vars
    /\ UNCHANGED manifest_vars

\* Lines 95-140, one pass of the loop body: a block whose source file is not
\* found, or whose file name was copied already, is passed over.
CopyImage ==
    /\ spc = "copy"
    /\ LET name == ImageBlockSeq[cursor].path.name
           last == cursor = Len(ImageBlockSeq)
       IN  IF name \notin present \/ name \in Range(image_files)
           THEN /\ cursor' = IF last THEN 1 ELSE cursor + 1
                /\ spc' = IF last THEN StageAfterCopy ELSE "copy"
                /\ UNCHANGED <<staged, image_files, scorm_error>>
           ELSE \E ok \in BOOLEAN :
                  IF ok
                  THEN /\ staged' = staged \cup {ImageFile(name)}
                       /\ image_files' = Append(image_files, name)
                       /\ cursor' = IF last THEN 1 ELSE cursor + 1
                       /\ spc' = IF last THEN StageAfterCopy ELSE "copy"
                       /\ UNCHANGED scorm_error
                  ELSE /\ spc' = "finally"
                       /\ scorm_error' = "OSError"
                       /\ UNCHANGED <<staged, image_files, cursor>>
    /\ UNCHANGED <<package_dir, present, page_files, page_html, zip_file, zip_members>>
    /\ UNCHANGED lecture_vars
    /\ UNCHANGED manifest_vars

\* Text contains sub
Contains(text, sub) ==
    \E i \in 1..(Len(text) - Len(sub) + 1) : SubSeq(text, i, i + Len(sub) - 1) = sub

\* html.escape(s): one token per character, an entity for & < > " and '
html_escape(text) ==
    [k \in DOMAIN text |->
        CASE text[k] = "&" -> "&amp;"
          [] text[k] = "<" -> "&lt;"
          [] text[k] = ">" -> "&gt;"
          [] text[k] = "\"" -> "&quot;"
          [] text[k] = "'" -> "&#x27;"
          [] OTHER -> text[k]]

\* escaped_content.replace('\n', '<br>')
BreakLines(tokens) == [k \in DOMAIN tokens |-> IF tokens[k] = "\n" THEN "<br>" ELSE tokens[k]]

\* The test of line 690: the content is taken for HTML
LooksLikeHtml(content) ==
    \/ Contains(content, <<"<", "i", "m", "g">>)
    \/ Contains(content, <<"<", "s", "t", "r", "o", "n", "g">>)
    \/ Contains(content, <<"<", "e", "m">>)
    \/ Contains(content, <<"<", "b", "r", ">">>)

\* _render_content_block for a Text block and an Image block: what stands
\* inside the block's div, as tokens (a character, an entity, or a tag the
\* renderer writes); the style attribute is left out.
render_content_block(block) ==
    IF block.type = "text"
    THEN [type |-> "text", bold |-> block.bold,
          inner |-> IF LooksLikeHtml(block.content) THEN block.content
                    ELSE IF block.bold
                    THEN <<"<strong>">> \o BreakLines(html_escape(block.content))
                                       \o <<"</strong>">>
                    ELSE BreakLines(html_escape(block.content))]
    ELSE [type |-> "image", bold |-> FALSE, inner |-> <<>>]

\* content_html of _render_page_html (lines 309-311)
render_page_html(page) ==
    [k \in DOMAIN page.content_blocks |-> render_content_block(page.content_blocks[k])]

\* Lines 143-157, one pass of the loop body: page_<idx>.html is written.
WritePage ==
    /\ spc = "pages"
    /\ \E ok \in BOOLEAN :
          IF ok
          THEN /\ staged' = staged \cup {PageFile(cursor)}
               /\ page_files' = Append(page_files, cursor)
               /\ page_html' = Append(page_html, render_page_html(AllPages[cursor]))
               /\ cursor' = IF cursor = Len(AllPages) THEN 1 ELSE cursor + 1
               /\ spc' = IF cursor = Len(AllPages) THEN "wrapper" ELSE "pages"
               /\ UNCHANGED scorm_error
          ELSE /\ spc' = "finally"
               /\ scorm_error' = "OSError"
               /\ UNCHANGED <<staged, page_files, page_html, cursor>>
    /\ UNCHANGED <<package_dir, present, image_files, zip_file, zip_members>>
    /\ UNCHANGED lecture_vars
    /\ UNCHANGED manifest_vars

\* Lines 160-163
WriteWrapper ==
    /\ spc = "wrapper"
    /\ \E ok \in BOOLEAN :
          IF ok
          THEN /\ staged' = staged \cup {WrapperFile}
               /\ spc' = "manifest"
               /\ UNCHANGED scorm_error
          ELSE /\ spc' = "finally"
               /\ scorm_error' = "OSError"
               /\ UNCHANGED staged
    /\ UNCHANGED <<package_dir, present, cursor, image_files, page_files, page_html,
                   zip_file, zip_members>>
    /\ UNCHANGED lecture_vars
    /\ UNCHANGED manifest_vars

\* ---- the manifest
\* The completion threshold t given as a number
NumberThreshold(v) == [type |-> "number", v |-> v]

\* A completion threshold that is a non-empty string
StringThreshold == [type |-> "str", v |-> 0]

\* The thresholds a caller gives: none, a string, and numbers below, in and
\* above the range 0..100
Thresholds ==
    {NoThreshold, StringThreshold, NumberThreshold(-10), NumberThreshold(0),
     NumberThreshold(50), NumberThreshold(100), NumberThreshold(150)}

\* Line 998: the truth value of the threshold
Truthy(t) == t.type = "str" \/ (t.type = "number" /\ t.v # 0)

\* Line 1000: threshold > 0 raises TypeError for a string
SequencingRaises(t) == Truthy(t) /\ t.type = "str"

\* An item without adlseq:sequencing
NoSequencing == [sequencing |-> FALSE, num |-> 0, den |-> 1]

\* _apply_sequencing_config(item, config, is_first), lines 995-1014: the
\* sequencing element the item is given.  minNormalizedMeasure is
\* str(threshold / 100.0), kept here as the fraction num / den.
apply_sequencing_config(t) ==
    IF Truthy(t) /\ t.type = "number" /\ t.v > 0
    THEN [sequencing |-> TRUE, num |-> t.v, den |-> 100]
    ELSE NoSequencing

\* The number of Pages of the Sections before Section s
PagesBefore(lec, s) == SumSeq([k \in 1..(s - 1) |-> Len(lec.sections[k].pages)])

\* The page file looked up without regard to the id
PageFilesOfAnyPage(pfiles, ids, id) == DOMAIN pfiles

\* Line 857: next((pf for pf in page_files if pf['page'].id == page.id), None),
\* as the positions of page_files that qualify
PageFilesOf(pfiles, ids, id) == {k \in DOMAIN pfiles : ids[pfiles[k]] = id}

\* Lines 856-876: the resource of the Page counted c, if its page file is found
ResourcesOf(pfiles, ifiles, ids, c) ==
    LET found == PageFilesOf(pfiles, ids, ids[c])
    IN  IF found = {} THEN <<>>
        ELSE LET f == PageFile(pfiles[MinOf(found)])
             IN  << [identifier |-> <<"RES_PAGE", c>>, href |-> f,
                     files |-> <<f, WrapperFile>>
                                 \o [k \in DOMAIN ifiles |-> ImageFile(ifiles[k])]] >>

\* _create_manifest_from_lecture(lecture, page_files, image_files, config),
\* lines 783-878: the items of the organization and the resources.  A Section
\* is named by its position, a Page by its id.
create_manifest_from_lecture(lec, pfiles, ifiles, ids, t) ==
    [items |->
        [s \in DOMAIN lec.sections |->
            [identifier |-> <<"SECTION", s>>,
             identifierref |-> <<>>,
             sequencing |-> apply_sequencing_config(t),
             items |->
                [g \in DOMAIN lec.sections[s].pages |->
                    [identifier |-> <<"PAGE", ids[PagesBefore(lec, s) + g]>>,
                     identifierref |-> <<"RES_PAGE", PagesBefore(lec, s) + g>>,
                     sequencing |-> NoSequencing,
                     items |-> <<>>]]]],
     resources |->
        Concat([c \in 1..Len(ids) |-> ResourcesOf(pfiles, ifiles, ids, c)])]

\* The ids the Pages of a Lecture of n Pages can have: all distinct, or one
\* Page carrying the id of an earlier one
PageIdChoices(n) ==
    {[k \in 1..n |-> IF i < j /\ k = j THEN i ELSE k] : i \in 1..n, j \in 1..n}
        \cup {[k \in 1..n |-> k]}

\* Lines 166-179: the manifest is built and written.  The ids of the Pages and
\* the threshold of config are read here for the first time.
WriteManifest ==
    /\ spc = "manifest"
    /\ \E t \in Thresholds, ids \in PageIdChoices(Len(AllPages)) :
          /\ threshold' = t
          /\ page_ids' = ids
          /\ IF SequencingRaises(t) /\ lecture.sections # <<>>
             THEN /\ spc' = "finally"
                  /\ scorm_error' = "TypeError"
                  /\ UNCHANGED <<staged, manifest>>
             ELSE \E ok \in BOOLEAN :
                    IF ok
                    THEN /\ manifest' = create_manifest_from_lecture(
                                            lecture, page_files, image_files, ids, t)
                         /\ staged' = staged \cup {ManifestFile}
                         /\ spc' = "zip_open"
                         /\ UNCHANGED scorm_error
                    ELSE /\ spc' = "finally"
                         /\ scorm_error' = "OSError"
                         /\ UNCHANGED <<staged, manifest>>
    /\ UNCHANGED <<package_dir, present, cursor, image_files, page_files, page_html,
                   zip_file, zip_members>>
    /\ UNCHANGED lecture_vars

\* Lines 182-183: zipfile.ZipFile(zip_path, 'w') makes the archive file.
OpenZip ==
    /\ spc = "zip_open"
    /\ \E ok \in BOOLEAN :
          IF ok
          THEN /\ zip_file' = TRUE
               /\ spc' = "zip_write"
               /\ UNCHANGED scorm_error
          ELSE /\ spc' = "finally"
               /\ scorm_error' = "OSError"
               /\ UNCHANGED zip_file
    /\ cursor' = 1
    /\ zip_members' = <<>>
    /\ UNCHANGED <<package_dir, staged, present, image_files, page_files, page_html>>
    /\ UNCHANGED lecture_vars
    /\ UNCHANGED manifest_vars

\* Lines 185-202: one zipf.write.  An image that is no longer in the staging
\* directory is passed over.  Leaving the with statement closes the archive,
\* after the last member (return zip_path) as after an exception.
ZipWrite ==
    /\ spc = "zip_write"
    /\ LET m == ZipPlan[cursor]
           last == cursor = Len(ZipPlan)
       IN  IF m.kind = "images" /\ m \notin staged
           THEN /\ cursor' = IF last THEN cursor ELSE cursor + 1
                /\ spc' = IF last THEN "finally" ELSE "zip_write"
                /\ UNCHANGED <<zip_members, scorm_error>>
           ELSE \E ok \in BOOLEAN :
                  IF ok
                  THEN /\ zip_members' = Append(zip_members, m)
                       /\ cursor' = IF last THEN cursor ELSE cursor + 1
                       /\ spc' = IF last THEN "finally" ELSE "zip_write"
                       /\ UNCHANGED scorm_error
                  ELSE /\ spc' = "finally"
                       /\ scorm_error' = "OSError"
                       /\ UNCHANGED <<zip_members, cursor>>
    /\ UNCHANGED <<package_dir, staged, present, image_files, page_files, page_html, zip_file>>
    /\ UNCHANGED lecture_vars
    /\ UNCHANGED manifest_vars

\* Lines 204-207: shutil.rmtree(package_dir, ignore_errors=True), then the
\* return or the exception goes on to the caller.
Finally ==
    /\ spc = "finally"
    /\ package_dir' = FALSE
    /\ staged' = {}
    /\ spc' = IF scorm_error = "none" THEN "returned" ELSE "raised"
    /\ UNCHANGED <<present, cursor, image_files, page_files, page_html, zip_file,
                   zip_members, scorm_error>>
    /\ UNCHANGED lecture_vars
    /\ UNCHANGED manifest_vars

build_from_lecture ==
    \/ MakePackageDir
    \/ MakeImagesDir
    \/ CopyImage
    \/ WritePage
    \/ WriteWrapper
    \/ WriteManifest
    \/ OpenZip
    \/ ZipWrite
    \/ Finally

\* The conversion: build_lecture, then build_from_lecture on its Lecture
NextScorm == Next \/ build_from_lecture

ScormPalette == {Chap, Body, ImgFile, ImgCanon}

InitScorm == InitWith(ScormPalette)

SpecScorm == InitScorm /\ [][NextScorm]_vars

\* C9: when build_from_lecture has ended, by a return or by an exception, the
\* staging directory does not exist.
C9_StagingRemoved == spc \in {"returned", "raised"} => ~package_dir

\* C10: when build_from_lecture has ended by an exception, the archive file
\* does not exist.
C10_NoArchiveOnFailure == spc = "raised" => ~zip_file

\* ------------------------------------------- _normalize_image_paths, twice
\* _normalize_image_paths(elements, output_images_dir) applied to a stream,
\* and then to what it left: the identifiers go on being drawn and the
\* directory keeps its files.  The sources answer the second application as
\* they answered the first.
ApplyNormalizeImagePaths ==
    /\ pc \in {"call", "applied_once"}
    /\ LET st == normalize_image_paths(elements, uuid, files)
       IN  /\ elements' = st.els
           /\ uuid' = st.uuid
           /\ files' = st.files
    /\ pc' = IF pc = "call" THEN "applied_once" ELSE "applied_twice"
    /\ UNCHANGED <<font_stats, images_dir, paragraphs, images, headers, lecture, error>>
    /\ UNCHANGED scorm_vars

NextNormalize == ApplyNormalizeImagePaths

ImgData == ImageEl([kind |-> "data", name |-> FileName("e"), src |-> "ok"],
                   100, 300, 1)

ImgDataBad == ImageEl([kind |-> "data", name |-> FileName("f"), src |-> "missing"],
                      400, 600, 1)

ImgRelative == ImageEl([kind |-> "relative", name |-> FileName("g.png"),
                        src |-> "ok"], 700, 900, 1)

ImgCopyError == ImageEl([kind |-> "absolute", name |-> FileName("h.png"),
                         src |-> "error"], 1000, 1200, 1)

PathPalette == {Body, ImgFile, ImgMissing, ImgBlob, ImgCanon, ImgData, ImgDataBad,
                ImgRelative, ImgCopyError}

InitNormalize == InitWith(PathPalette)

SpecNormalize == InitNormalize /\ [][NextNormalize]_vars

\* The positions of the canonical references of the stream
CanonicalRefs ==
    {i \in DOMAIN elements :
        elements[i].type = "image" /\ AlreadyNormalized(elements[i].image_path)}

\* The positions whose reference an application resolves by writing a file
ResolvedByWriting ==
    {i \in DOMAIN elements :
        elements[i].type = "image" /\ WritesFile(elements[i].image_path)}

\* C11: a second application of _normalize_image_paths changes no fragment and
\* writes no file; and in any application a reference that is relative and
\* starts with "images/" stays as it is, the files written being one for each
\* reference resolved by a copy or a decoding, none for a canonical reference.
C11_NormalizeIdempotent ==
    [][/\ pc = "applied_once" => (elements' = elements /\ files' = files)
       /\ \A i \in CanonicalRefs : elements'[i] = elements[i]
       /\ Cardinality(files' \ files) = Cardinality(ResolvedByWriting)]_vars

\* Both applications done on a stream holding a canonical reference, a copied
\* file, a decoded data URI, a renamed relative reference and an absent file.
C11_Witness ==
    /\ pc = "applied_twice"
    /\ CanonicalRefs # {}
    /\ Cardinality(files) = 2
    /\ \E i, j, k \in DOMAIN elements :
          /\ elements[i].image_path = ImagesPath(GeneratedName(1))
          /\ elements[j].image_path = ImagesPath(FileName("g.png"))
          /\ elements[k].image_path.kind = "absolute"

\* ------------------------------------------------------------ determinism
\* build_lecture(els, dir) as one function of the stream, of the identifiers
\* uuid4 has given and of the files of the directory: what the actions
\* CheckElements .. BuildSections compute one after the other.
RunBuildLecture(els, u, f) ==
    IF els = <<>>
    THEN [error |-> "ValueError", paragraphs |-> <<>>, headers |-> <<>>,
          lecture |-> NoLecture]
    ELSE LET st == normalize_image_paths(els, u, f)
             ps == normalize_elements_to_paragraphs(st.els)
         IN  IF ps = <<>>
             THEN [error |-> "none", paragraphs |-> ps, headers |-> <<>>,
                   lecture |-> build_lecture_from_images_only(st.els)]
             ELSE LET hs == identify_headers_from_paragraphs(ps)
                      fl == FlagHeaders(ps, FontStats(ps))
                  IN  [error |-> "none", paragraphs |-> fl, headers |-> hs,
                       lecture |->
                          [title |-> extract_lecture_title(fl, hs),
                           description |-> <<>>,
                           sections |-> build_sections_from_paragraphs(
                                            st.els, fl, hs, ImagesOf(st.els))]]

\* A run without its generated image file names
WithoutGeneratedName(p) == IF p.name.stem = "img_" THEN [p EXCEPT !.name.n = 0] ELSE p

WithoutGeneratedNames(run) ==
    [run EXCEPT !.lecture.sections =
        [s \in DOMAIN @ |-> [@[s] EXCEPT !.pages =
            [g \in DOMAIN @ |-> [@[g] EXCEPT !.content_blocks =
                [b \in DOMAIN @ |->
                    [@[b] EXCEPT !.path = WithoutGeneratedName(@)]]]]]]]

\* What the run of the state machine has produced
ThisRun == [error |-> error, paragraphs |-> paragraphs, headers |-> headers,
            lecture |-> lecture]

\* The identifiers and files a run over the stream can have left behind
NamesGiven == {GeneratedName(k) : k \in 1..Len(elements)}

MaxSections == 2

MaxPages == 2

\* The Page counted c in document order: a Text block and an Image block; the
\* image file names alternate, so that Pages two apart name the same file.
PackagePage(c) ==
    [title |-> <<"P">>, order |-> c, paras |-> <<>>,
     content_blocks |->
        << [type |-> "text", content |-> <<"t">>, bold |-> FALSE, path |-> NoPath,
            source |-> 0, y0 |-> 0, y1 |-> 0],
           [type |-> "image", content |-> <<>>,
            path |-> ImagesPath(FileName(IF c % 2 = 1 THEN "a.png" ELSE "b.png")),
            source |-> 0, y0 |-> 0, y1 |-> 0] >>]

\* The Lecture whose Section s has shape[s] Pages
PackageLecture(shape) ==
    [title |-> <<"T">>, description |-> <<>>,
     sections |->
        [s \in DOMAIN shape |->
            [title |-> <<"S">>, order |-> s,
             pages |-> [g \in 1..shape[s] |->
                          PackagePage(SumSeq(SubSeq(shape, 1, s - 1)) + g)]]]]

Shapes == UNION {[1..n -> 0..MaxPages] : n \in 0..MaxSections}

InitPackage ==
    /\ elements = <<>>
    /\ pc = "returned"
    /\ images_dir = FALSE
    /\ files = {}
    /\ uuid = 0
    /\ paragraphs = <<>>
    /\ images = <<>>
    /\ headers = <<>>
    /\ lecture \in {PackageLecture(shape) : shape \in Shapes}
    /\ error = "none"
    /\ font_stats = NoStats
    /\ spc = "idle"
    /\ package_dir = FALSE
    /\ staged = {}
    /\ present = {}
    /\ cursor = 0
    /\ image_files = <<>>
    /\ page_files = <<>>
    /\ page_html = <<>>
    /\ zip_file = FALSE
    /\ zip_members = <<>>
    /\ scorm_error = "none"
    /\ threshold = NoThreshold
    /\ page_ids = <<>>
    /\ manifest = NoManifest

SpecPackage == InitPackage /\ [][build_from_lecture]_vars

\* The manifest has just been built and written
ManifestWritten == spc \in {"zip_open", "zip_write"}

DistinctIds == \A c, d \in DOMAIN page_ids : page_ids[c] = page_ids[d] => c = d

\* The page items of the manifest, in document order
PageItems == Concat([s \in DOMAIN manifest.items |-> manifest.items[s].items])

\* C13: for Pages of pairwise distinct ids, the organization has one item for
\* each Section, in order, holding one item for each Page of the Section, in
\* order; there is one resource for each Page, their identifiers are pairwise
\* distinct; and the item of the Page counted k refers to the one resource
\* whose href is page_<k>.html.
C13_ManifestStructure ==
    (ManifestWritten /\ DistinctIds) =>
        /\ Len(manifest.items) = Len(lecture.sections)
        /\ \A s \in DOMAIN manifest.items :
              /\ manifest.items[s].identifier = <<"SECTION", s>>
              /\ Len(manifest.items[s].items) = Len(lecture.sections[s].pages)
        /\ Len(PageItems) = Len(AllPages)
        /\ \A k \in DOMAIN PageItems : PageItems[k].identifier = <<"PAGE", page_ids[k]>>
        /\ Len(manifest.resources) = Len(AllPages)
        /\ \A q, r \in DOMAIN manifest.resources :
              manifest.resources[q].identifier = manifest.resources[r].identifier
                  => q = r
        /\ \A k \in DOMAIN PageItems :
              \E r \in DOMAIN manifest.resources :
                  /\ manifest.resources[r].href = PageFile(k)
                  /\ manifest.resources[r].identifier = PageItems[k].identifierref
                  /\ \A q \in DOMAIN manifest.resources :
                        manifest.resources[q].href = PageFile(k) => q = r

\* A manifest written for two Sections of two Pages each, all ids distinct.
C13_Witness ==
    /\ ManifestWritten
    /\ DistinctIds
    /\ Len(manifest.items) = 2
    /\ \A s \in DOMAIN manifest.items : Len(manifest.items[s].items) = 2
    /\ Len(manifest.resources) = 4

\* Every minNormalizedMeasure of the manifest, as <<num, den>>
Measures ==
    {<<manifest.items[s].sequencing.num, manifest.items[s].sequencing.den>> :
        s \in {x \in DOMAIN manifest.items : manifest.items[x].sequencing.sequencing}}
      \cup {<<PageItems[k].sequencing.num, PageItems[k].sequencing.den>> :
              k \in {x \in DOMAIN PageItems : PageItems[x].sequencing.sequencing}}

\* C14: no threshold makes the serializer raise, and every
\* minNormalizedMeasure written lies between 0 and 1, being 1 for a threshold
\* above 100 and 0 for a threshold below 0.
C14_MeasureClamped ==
    /\ scorm_error # "TypeError"
    /\ ManifestWritten =>
          \A m \in Measures :
              /\ 0 <= m[1] /\ m[1] <= m[2]
              /\ threshold.v > 100 => m[1] = m[2]
              /\ threshold.v < 0 => m[1] = 0

\* C15: for a threshold t with 0 < t <= 100, every Section item and every Page
\* item of the manifest has a minNormalizedMeasure of t / 100.
C15_EveryItemSequenced ==
    (/\ ManifestWritten
     /\ threshold.type = "number" /\ 0 < threshold.v /\ threshold.v <= 100) =>
        /\ \A s \in DOMAIN manifest.items :
              /\ manifest.items[s].sequencing.sequencing
              /\ 100 * manifest.items[s].sequencing.num
                    = threshold.v * manifest.items[s].sequencing.den
        /\ \A k \in DOMAIN PageItems :
              /\ PageItems[k].sequencing.sequencing
              /\ 100 * PageItems[k].sequencing.num
                    = threshold.v * PageItems[k].sequencing.den

\* The file names of the Image blocks whose source file is found
FoundNames == {n \in ImageNames : n \in present}

\* C16: after a return the archive holds imsmanifest.xml, SCORM_API_wrapper.js,
\* page_<i>.html for every i up to the number of Pages, and images/<name> for
\* every file name of an Image block whose source was found, each member once
\* and no other member.
C16_ArchiveMembers ==
    spc = "returned" =>
        /\ Range(zip_members) =
              {ManifestFile, WrapperFile}
                \cup {PageFile(i) : i \in 1..Len(AllPages)}
                \cup {ImageFile(n) : n \in FoundNames}
        /\ \A i, j \in DOMAIN zip_members : zip_members[i] = zip_members[j] => i = j

\* A return for four Pages naming a.png twice and b.png twice, a.png found
\* and b.png not.
C16_Witness ==
    /\ spc = "returned"
    /\ Len(AllPages) = 4
    /\ present = {FileName("a.png")}
    /\ Len(zip_members) = 7

\* ------------------------------------------------------------- Scenario B
\* Two headings of size 24 and two body paragraphs of size 12 on page 1, none
\* bold.  "Details" comes 38 units below the first body paragraph or, as
\* ScDetailsNear, 10 units below it.
ScIntro == TextEl(<<"I", "n", "t", "r", "o">>, 24, FALSE, 0, 500, 740, 1)

ScBodyOne == TextEl(<<"B", "o", "d", "y", ".">>, 12, FALSE, 0, 1000, 1120, 1)

ScDetails == TextEl(<<"D", "e", "t", "a", "i", "l", "s">>, 24, FALSE, 0, 1500, 1740, 1)

ScDetailsNear ==
    TextEl(<<"D", "e", "t", "a", "i", "l", "s">>, 24, FALSE, 0, 1220, 1460, 1)

ScBodyTwo == TextEl(<<"M", "o", "r", "e", ".">>, 12, FALSE, 0, 2000, 2120, 1)

ScenarioPalette == {ScIntro, ScBodyOne, ScDetails, ScDetailsNear, ScBodyTwo, ImgCanon}

InitScenario == InitWith(ScenarioPalette)

SpecScenario == InitScenario /\ [][Next]_vars

\* The stream is Scenario B: the paragraphs built are "Intro" at 24, a body
\* paragraph at 12, "Details" at 24 and a body paragraph at 12, in this order.
IsScenarioB ==
    /\ Len(elements) = 4
    /\ Len(paragraphs) = 4
    /\ paragraphs[1].text = ScIntro.text
    /\ paragraphs[3].text = ScDetails.text
    /\ \A k \in {2, 4} : paragraphs[k].text \in {ScBodyOne.text, ScBodyTwo.text}
    /\ \A k \in 1..4 : /\ paragraphs[k].fs_sum = (IF k % 2 = 1 THEN 24 ELSE 12)
                                                  * paragraphs[k].fs_cnt
                       /\ ~paragraphs[k].is_bold
                       /\ paragraphs[k].page_number = 1

\* C17: for Scenario B the Lecture has one Section of two Pages, titled
\* "Intro" and "Details", each with exactly one Text block.
C17_ScenarioB ==
    (pc = "returned" /\ IsScenarioB) =>
        /\ Len(lecture.sections) = 1
        /\ Len(AllPages) = 2
        /\ AllPages[1].title = ScIntro.text
        /\ AllPages[2].title = ScDetails.text
        /\ \A g \in 1..2 : Cardinality(TextBlocksOf(AllPages[g])) = 1

\* ------------------------------------------------ image anchoring claims
\* Two body paragraphs and a bold heading of page 1, and five images: one below
\* both paragraphs, one far above them (396 units from the nearer center), one
\* overlapping both at 50 units from either center, one whose center is
\* exactly 300 units above the first paragraph's center, and one overlapping
\* both whose center is nearer to the second.
AnHead == TextEl(<<"C", "h", "a", "p">>, 24, TRUE, 0, 2000, 2240, 1)

AnOne == TextEl(<<"O", "n", "e", ".">>, 12, FALSE, 0, 4000, 4120, 1)

AnTwo == TextEl(<<"T", "w", "o", ".">>, 12, FALSE, 0, 5000, 5120, 1)

AnBelow == ImageEl([kind |-> "images", name |-> FileName("a.png"), src |-> "ok"],
                   6000, 6500, 1)

AnFar == ImageEl([kind |-> "images", name |-> FileName("b.png"), src |-> "ok"],
                 0, 200, 1)

AnTie == ImageEl([kind |-> "images", name |-> FileName("c.png"), src |-> "ok"],
                 3900, 5220, 1)

AnEdge == ImageEl([kind |-> "images", name |-> FileName("d.png"), src |-> "ok"],
                  960, 1160, 1)

AnOverlap == ImageEl([kind |-> "images", name |-> FileName("e.png"), src |-> "ok"],
                     3950, 6000, 1)

AnchorPalette == {AnHead, AnOne, AnTwo, AnBelow, AnFar, AnTie, AnEdge, AnOverlap}

InitAnchor == InitWith(AnchorPalette)

SpecAnchor == InitAnchor /\ [][Next]_vars

ImageBlocksOf(pg) == DOMAIN pg.content_blocks \ TextBlocksOf(pg)

\* The Text blocks of pg whose paragraph ends at or above the top of block j
TextAbove(pg, j) ==
    {t \in TextBlocksOf(pg) : pg.content_blocks[t].y1 <= pg.content_blocks[j].y0}

\* The last Text block before block j in block order, 0 if there is none
PrecedingText(pg, j) == MaxOf({0} \cup {t \in TextBlocksOf(pg) : t < j})

\* Twice the distance between the vertical centers of blocks t and j
BlockDistance2(pg, t, j) ==
    Abs((pg.content_blocks[t].y0 + pg.content_blocks[t].y1)
          - (pg.content_blocks[j].y0 + pg.content_blocks[j].y1))

\* The earliest of the Text blocks of pg nearest to block j
NearestText(pg, j) ==
    MinOf({t \in TextBlocksOf(pg) :
              \A u \in TextBlocksOf(pg) : BlockDistance2(pg, t, j) <= BlockDistance2(pg, u, j)})

\* C18: an Image block of a Page that has Text blocks ending at or above the
\* image's top comes after the last of them in block order, with no other
\* Text block between: an image below several paragraphs follows the lowest.
C18_AnchorLastAbove ==
    pc = "returned" =>
        \A pg \in Range(AllPages) : \A j \in ImageBlocksOf(pg) :
            TextAbove(pg, j) # {} => PrecedingText(pg, j) = MaxOf(TextAbove(pg, j))

\* C19: an Image block of a Page with no Text block ending at or above the
\* image's top follows the Text block whose center is nearest to its own (the
\* earliest of them on a tie), no other Text block between, when that distance
\* is at most 300 units; when it is larger, or the Page has no Text block, no
\* Text block comes after the image.
C19_NearestFallback ==
    pc = "returned" =>
        \A pg \in Range(AllPages) : \A j \in ImageBlocksOf(pg) :
            TextAbove(pg, j) = {} =>
                IF /\ TextBlocksOf(pg) # {}
                   /\ BlockDistance2(pg, NearestText(pg, j), j) <= 2 * 3000
                THEN PrecedingText(pg, j) = NearestText(pg, j)
                ELSE \A t \in TextBlocksOf(pg) : t < j

\* A Page of two Text blocks where an image at exactly 300 units from the
\* first one follows it, and an image at 396 units comes last.
C19_Witness ==
    /\ pc = "returned"
    /\ \E pg \in Range(AllPages) : \E j, f \in ImageBlocksOf(pg) :
          /\ Cardinality(TextBlocksOf(pg)) = 2
          /\ TextAbove(pg, j) = {} /\ TextAbove(pg, f) = {}
          /\ BlockDistance2(pg, NearestText(pg, j), j) = 2 * 3000
          /\ PrecedingText(pg, j) = 1 /\ j = 2
          /\ BlockDistance2(pg, NearestText(pg, f), f) = 2 * 3960
          /\ f = 4

\* A Page without Text blocks holds an image
C19_NoTextPage ==
    /\ pc = "returned"
    /\ \E pg \in Range(AllPages) : TextBlocksOf(pg) = {} /\ ImageBlocksOf(pg) # {}

\* An image overlapping two paragraphs, at the same distance from both, follows
\* the first
C19_TiePlaced ==
    /\ pc = "returned"
    /\ \E pg \in Range(AllPages) : \E j \in ImageBlocksOf(pg) :
          /\ TextAbove(pg, j) = {}
          /\ \E t, u \in TextBlocksOf(pg) :
                t < u /\ BlockDistance2(pg, t, j) = BlockDistance2(pg, u, j)
          /\ PrecedingText(pg, j) = 1

\* ------------------------------------------------ global ordinal claims
\* C20: in the paragraph list, which is sorted by (page, top of the bounding
\* box), every paragraph's global ordinal is its position counted from 0; a
\* header's ordinal used as a list position is the position of the header's
\* own paragraph, and every Page cut at a header starts with that header's
\* paragraph.
C20_OrdinalIsPosition ==
    /\ \A k \in DOMAIN paragraphs : paragraphs[k].global_index = k - 1
    /\ \A k \in 1..(Len(paragraphs) - 1) : ~ParaLess(paragraphs[k + 1], paragraphs[k])
    /\ \A h \in DOMAIN headers :
          /\ headers[h].index + 1 = headers[h].para
          /\ headers[h].text = HeaderText(Strip(paragraphs[headers[h].index + 1].text))
    /\ (pc = "returned" /\ headers # <<>>) =>
          \A pg \in Range(AllPages) :
              /\ \E h \in DOMAIN headers : headers[h].index = pg.paras[1]
              /\ \A k \in DOMAIN pg.paras : pg.paras[k] = pg.paras[1] + k - 1

\* A stream that starts with a fragment of page 2 and holds fragments of page
\* 1, returned with three paragraphs or more and a header that is not the
\* first paragraph.
C20_Witness ==
    /\ pc = "returned"
    /\ Len(paragraphs) >= 3
    /\ elements[1].page_number = 2
    /\ paragraphs[1].page_number = 1
    /\ \E h \in DOMAIN headers : headers[h].index > 0

\* ------------------------------------------------ header rule claims
\* _identify_headers_from_paragraphs(paragraphs, header_threshold,
\* median_font_size) applied on its own: the paragraphs are those of a stream,
\* the two numbers are given.  StatsOf(ps, t, m) stands for a median of m and a
\* header_threshold of max(1.3 * m, t), in the scale of Scaled(ps, _).
StatsOf(ps, t, m) ==
    [n |-> 1, sum |-> t * Denominator(ps), med2 |-> 2 * m * Denominator(ps), q |-> 0]

ThresholdChoices == {12, 16, 24, 40}

MedianChoices == {12}

\* A heading of size 24 that is not bold and two lines that continue it, a
\* bold heading of size 18, a heading of size 18 that is not bold and stands
\* 82 units below the one before it, and a body paragraph.
HdChap == TextEl(<<"C", "h", "a", "p">>, 24, FALSE, 0, 500, 740, 1)

HdChapTwo == TextEl(<<"t", "w", "o">>, 24, FALSE, 0, 800, 1040, 1)

HdChapThree == TextEl(<<"t", "h", "r", "e", "e">>, 24, FALSE, 0, 1100, 1340, 1)

HdPart == TextEl(<<"P", "a", "r", "t">>, 18, TRUE, 0, 2000, 2180, 1)

HdTopic == TextEl(<<"T", "o", "p", "i", "c">>, 18, FALSE, 0, 3000, 3180, 1)

HdBody == TextEl(<<"B", "o", "d", "y", ".">>, 12, FALSE, 0, 4000, 4120, 1)

HeaderPalette == {HdChap, HdChapTwo, HdChapThree, HdPart, HdTopic, HdBody}

InitHeaders ==
    /\ elements \in Streams(HeaderPalette)
    /\ pc = "headers_call"
    /\ images_dir = FALSE
    /\ files = {}
    /\ uuid = 0
    /\ paragraphs = normalize_elements_to_paragraphs(elements)
    /\ images = ImagesOf(elements)
    /\ headers = <<>>
    /\ lecture = NoLecture
    /\ error = "none"
    /\ font_stats \in {StatsOf(paragraphs, t, m) : t \in ThresholdChoices, m \in MedianChoices}
    /\ spc = "idle"
    /\ package_dir = FALSE
    /\ staged = {}
    /\ present = {}
    /\ cursor = 0
    /\ image_files = <<>>
    /\ page_files = <<>>
    /\ page_html = <<>>
    /\ zip_file = FALSE
    /\ zip_members = <<>>
    /\ scorm_error = "none"
    /\ threshold = NoThreshold
    /\ page_ids = <<>>
    /\ manifest = NoManifest

\* The call: the headers list is returned, the paragraphs are flagged in place
ApplyIdentifyHeaders ==
    /\ pc = "headers_call"
    /\ headers' = HeadersFrom(paragraphs, font_stats, 1)
    /\ paragraphs' = FlagHeaders(paragraphs, font_stats)
    /\ pc' = "headers_done"
    /\ UNCHANGED <<elements, images_dir, files, uuid, images, lecture, error, font_stats>>
    /\ UNCHANGED scorm_vars

NextHeaders == ApplyIdentifyHeaders

SpecHeaders == InitHeaders /\ [][NextHeaders]_vars

\* Paragraph k is short enough for rules 1 and 2 and has a text
ShortParagraph(k) ==
    /\ Strip(paragraphs[k].text) # <<>>
    /\ paragraphs[k].num_lines <= 2
    /\ Len(Strip(paragraphs[k].text)) <= 150

\* C21: after classification, a short paragraph whose mean font size is at
\* least the threshold is a header of level 1 when its size is at least 1.5
\* times the threshold and of level 2 otherwise, whether or not it is bold or
\* satisfies rule 3; the headers list records the same level.
C21_FirstRuleWins ==
    pc = "headers_done" =>
        \A k \in DOMAIN paragraphs :
            (ShortParagraph(k) /\ AtLeastThreshold(Scaled(paragraphs, k), font_stats)) =>
                LET level == IF AtLeastThresholdTimesOneAndHalf(Scaled(paragraphs, k),
                                                                font_stats)
                             THEN 1 ELSE 2
                IN  /\ paragraphs[k].is_header
                    /\ paragraphs[k].header_level = level
                    /\ \E h \in DOMAIN headers :
                          headers[h].para = k /\ headers[h].level = level

\* Three paragraphs classified by rule 1: the first, not bold, of level 1; a
\* bold one of level 2; and one of level 2 that satisfies rule 3.
C21_Witness ==
    /\ pc = "headers_done"
    /\ Len(paragraphs) = 3
    /\ \A k \in 1..3 : /\ ShortParagraph(k)
                        /\ AtLeastThreshold(Scaled(paragraphs, k), font_stats)
    /\ ~paragraphs[1].is_bold /\ paragraphs[1].header_level = 1
    /\ \E k \in 2..3 : paragraphs[k].is_bold /\ paragraphs[k].header_level = 2
    /\ \E k \in 2..3 : /\ Rule3Level(paragraphs, k, font_stats) = 1
                        /\ paragraphs[k].header_level = 2

\* A paragraph of three lines at the size of a heading that rule 1 leaves to
\* the later rules
C21_LongParagraph ==
    /\ pc = "headers_done"
    /\ \E k \in DOMAIN paragraphs :
          /\ paragraphs[k].num_lines = 3
          /\ AtLeastThreshold(Scaled(paragraphs, k), font_stats)
          /\ ~paragraphs[k].is_header

\* ------------------------------------------------ page segmentation claims
\* All text on PDF page 1: a bold heading, a line of size 18 under it, a body
\* paragraph, two images below that paragraph, a second bold heading and its
\* body paragraph; and an image on PDF page 2, which has no text.
PgHeadA == TextEl(<<"C", "h", "a", "p">>, 12, TRUE, 0, 500, 620, 1)

PgSub == TextEl(<<"s", "u", "b">>, 18, FALSE, 0, 700, 880, 1)

PgBodyA == TextEl(<<"B", "o", "d", "y", ".">>, 12, FALSE, 0, 1000, 1120, 1)

PgImgA == ImageEl([kind |-> "images", name |-> FileName("a.png"), src |-> "ok"],
                  1300, 1500, 1)

PgImgB == ImageEl([kind |-> "images", name |-> FileName("b.png"), src |-> "ok"],
                  1600, 1800, 1)

PgHeadB == TextEl(<<"N", "e", "x", "t">>, 12, TRUE, 0, 2000, 2120, 1)

PgBodyB == TextEl(<<"m", "o", "r", "e", ".">>, 12, FALSE, 0, 2500, 2620, 1)

PgImgOther == ImageEl([kind |-> "images", name |-> FileName("c.png"), src |-> "ok"],
                      100, 300, 2)

PagePalette == {PgHeadA, PgSub, PgBodyA, PgImgA, PgImgB, PgHeadB, PgBodyB, PgImgOther}

InitPages == InitWith(PagePalette)

SpecPages == InitPages /\ [][Next]_vars

\* The page-defining headers: those of level 1, all headers when there is none
PageHeaders ==
    IF \E h \in DOMAIN headers : headers[h].level = 1
    THEN SelectSeq(headers, LAMBDA h : h.level = 1)
    ELSE headers

\* The ordinal at which the Page of the k-th page-defining header ends
PageEnd(k) == IF k < Len(PageHeaders) THEN PageHeaders[k + 1].index ELSE Len(paragraphs)

\* The ordinals of the non-header paragraphs strictly after ordinal a and
\* before ordinal b, in list order
BodyOrdinals(a, b) ==
    LET body == SelectSeq(paragraphs, LAMBDA p :
                    ~p.is_header /\ a < p.global_index /\ p.global_index < b)
    IN  [j \in 1..Len(body) |-> body[j].global_index]

\* The ordinals of the paragraphs behind the Text blocks of pg, in block order
TextSources(pg) ==
    LET text == SelectSeq(pg.content_blocks, LAMBDA b : b.type = "text")
    IN  [j \in 1..Len(text) |-> text[j].source]

\* C22: when headers exist there is one Page per page-defining header, in
\* order; its Text blocks are the non-header paragraphs between that header
\* and the next page-defining one (the end of the list for the last), in
\* order, and its title is the header's text cut at 100 characters.
C22_PageSpans ==
    (pc = "returned" /\ headers # <<>>) =>
        /\ Len(AllPages) = Len(PageHeaders)
        /\ \A k \in DOMAIN AllPages :
              /\ TextSources(AllPages[k]) = BodyOrdinals(PageHeaders[k].index, PageEnd(k))
              /\ AllPages[k].title =
                    SubSeq(PageHeaders[k].text, 1, Min2(100, Len(PageHeaders[k].text)))

\* Two Pages cut at two level-1 headers, each with one Text block
C22_Witness ==
    /\ pc = "returned"
    /\ Len(PageHeaders) = 2
    /\ PageHeaders[1].level = 1
    /\ Len(AllPages) = 2
    /\ \A k \in 1..2 : Len(TextSources(AllPages[k])) = 1

\* A Page that holds a header of level 2 between its level-1 header and its
\* Text block
C22_InnerHeader ==
    /\ pc = "returned"
    /\ Len(AllPages) = 2
    /\ \E h \in DOMAIN headers :
          /\ headers[h].level = 2
          /\ PageHeaders[1].index < headers[h].index
          /\ TextSources(AllPages[1]) = <<headers[h].index + 1>>

\* A Page cut at a header of level 2, there being none of level 1
C22_FallbackPage ==
    /\ pc = "returned"
    /\ headers # <<>>
    /\ \A h \in DOMAIN headers : headers[h].level = 2
    /\ Len(AllPages) = 1
    /\ TextSources(AllPages[1]) # <<>>

\* ------------------------------------------------ line grouping claims
\* Fragments of page 1 whose tops 97.5, 100.0 and 102.5 round to the bucket
\* 100, one at 107.5 (bucket 110), one at 120.0, one at 200.0, one of page 2
\* at 100.0, and an image of page 1 at 100.0.
LnLeft == TextEl(<<"a", "a">>, 12, FALSE, 0, 1000, 1120, 1)

LnMid == TextEl(<<"b", "b">>, 12, FALSE, 200, 1025, 1145, 1)

LnRight == TextEl(<<"c", "c">>, 12, FALSE, 400, 975, 1095, 1)

LnBelow == TextEl(<<"d", "d">>, 12, FALSE, 0, 1075, 1195, 1)

LnLast == TextEl(<<"e", "e">>, 12, FALSE, 0, 1200, 1320, 1)

LnFar == TextEl(<<"g", "g">>, 12, FALSE, 0, 2000, 2120, 1)

LnOther == TextEl(<<"f", "f">>, 12, FALSE, 0, 1000, 1120, 2)

LnImage == ImageEl([kind |-> "images", name |-> FileName("a.png"), src |-> "ok"],
                   1000, 1100, 1)

LinePalette == {LnLeft, LnMid, LnRight, LnBelow, LnLast, LnFar, LnOther, LnImage}

InitLines == InitWith(LinePalette)

SpecLines == InitLines /\ [][Next]_vars

\* The lines that hold fragment i
LinesHolding(i) ==
    {l \in DOMAIN LinesOf(elements) : \E j \in DOMAIN LinesOf(elements)[l] :
                                          LinesOf(elements)[l][j] = i}

\* How often fragment i occurs in line l
TimesInLine(i, l) ==
    Cardinality({j \in DOMAIN LinesOf(elements)[l] : LinesOf(elements)[l][j] = i})

\* C23: once the lines are grouped, every text fragment is in exactly one
\* line, once; an image fragment is in none; two text fragments share a line
\* exactly when they have the same page number and the same bucket
\* round(y0 / 5) * 5.
C23_LinesPartition ==
    ParagraphsBuilt =>
        /\ \A i \in DOMAIN elements :
              IF elements[i].type = "text"
              THEN /\ Cardinality(LinesHolding(i)) = 1
                   /\ \A l \in LinesHolding(i) : TimesInLine(i, l) = 1
              ELSE LinesHolding(i) = {}
        /\ \A i, j \in DOMAIN elements :
              (elements[i].type = "text" /\ elements[j].type = "text") =>
                  (LinesHolding(i) = LinesHolding(j)
                     <=> /\ elements[i].page_number = elements[j].page_number
                         /\ RoundDiv(elements[i].bbox[2], 50) = RoundDiv(elements[j].bbox[2], 50))

\* Three fragments with tops 97.5, 100.0 and 102.5 share a line although a
\* fragment of another line stands between them in the stream.
C23_Witness ==
    /\ ParagraphsBuilt
    /\ Len(elements) = 4
    /\ \E l \in DOMAIN LinesOf(elements) :
          {elements[i].bbox[2] : i \in Range(LinesOf(elements)[l])} = {975, 1000, 1025}
    /\ line_id(elements[1]) = line_id(elements[4])
    /\ line_id(elements[2]) # line_id(elements[1])

\* ------------------------------------------------ page rendering claims
\* build_from_lecture on a Lecture of one Page whose Text blocks hold markup
\* characters: "a<b", "<img>", "x<em&", "a&b>" and a text of two lines; the
\* Page may hold an Image block as well.
MaxBlocks == 2

RenderTexts ==
    { <<"a", "<", "b">>, <<"<", "i", "m", "g", ">">>, <<"x", "<", "e", "m", "&">>,
      <<"a", "&", "b", ">">>, <<"a", "\n", "b">> }

RenderBlocks ==
    {[type |-> "text", content |-> t, bold |-> b, path |-> NoPath,
      source |-> 0, y0 |-> 0, y1 |-> 0] : t \in RenderTexts, b \in BOOLEAN}
    \cup {[type |-> "image", content |-> <<>>, path |-> ImagesPath(FileName("a.png")),
            source |-> 0, y0 |-> 0, y1 |-> 0]}

RenderBlockSeqs == UNION {[1..n -> RenderBlocks] : n \in 1..MaxBlocks}

RenderLecture(blocks) ==
    [title |-> <<"T">>, description |-> <<>>,
     sections |-> << [title |-> <<"S">>, order |-> 1,
                      pages |-> << [title |-> <<"P">>, order |-> 1, paras |-> <<>>,
                                    content_blocks |-> blocks] >>] >>]

InitRender ==
    /\ elements = <<>>
    /\ pc = "returned"
    /\ images_dir = FALSE
    /\ files = {}
    /\ uuid = 0
    /\ paragraphs = <<>>
    /\ images = <<>>
    /\ headers = <<>>
    /\ lecture \in {RenderLecture(blocks) : blocks \in RenderBlockSeqs}
    /\ error = "none"
    /\ font_stats = NoStats
    /\ spc = "idle"
    /\ package_dir = FALSE
    /\ staged = {}
    /\ present = {}
    /\ cursor = 0
    /\ image_files = <<>>
    /\ page_files = <<>>
    /\ page_html = <<>>
    /\ zip_file = FALSE
    /\ zip_members = <<>>
    /\ scorm_error = "none"
    /\ threshold = NoThreshold
    /\ page_ids = <<>>
    /\ manifest = NoManifest

SpecRender == InitRender /\ [][build_from_lecture]_vars

\* The markup characters of a text
MarkupChars == {"<", ">", "&"}

\* C24: in every page document written, no Text block shows a character
\* '<', '>' or '&' of its text unescaped, whatever the text contains.
C24_TextEscaped ==
    \A d \in DOMAIN page_html : \A k \in DOMAIN page_html[d] :
        page_html[d][k].type = "text" =>
            \A j \in DOMAIN page_html[d][k].inner :
                page_html[d][k].inner[j] \notin MarkupChars

\* A page document is written whose Text block "a<b" is escaped
C24_EscapedReached ==
    /\ page_html # <<>>
    /\ \E k \in DOMAIN page_html[1] : page_html[1][k].inner = <<"a", "&lt;", "b">>

\* ------------------------------------------------ content coverage claims
\* Where paragraph ordinal g is the source of a Text block: <<page, block>>
TextBlocksFrom(g) ==
    {pb \in UNION {{<<n, j>> : j \in DOMAIN AllPages[n].content_blocks} : n \in DOMAIN AllPages} :
        /\ AllPages[pb[1]].content_blocks[pb[2]].type = "text"
        /\ AllPages[pb[1]].content_blocks[pb[2]].source = g}

\* Where image fragment i is the source of an Image block: <<page, block>>
ImageBlocksFrom(i) ==
    {pb \in UNION {{<<n, j>> : j \in DOMAIN AllPages[n].content_blocks} : n \in DOMAIN AllPages} :
        /\ AllPages[pb[1]].content_blocks[pb[2]].type = "image"
        /\ AllPages[pb[1]].content_blocks[pb[2]].source = i}

\* C25: in the Lecture returned for a stream with text, every paragraph that
\* is not flagged as a header is the source of exactly one Text block, the
\* paragraphs before the first page-defining header included.
C25_NoTextLost ==
    (pc = "returned" /\ paragraphs # <<>>) =>
        \A k \in DOMAIN paragraphs :
            ~paragraphs[k].is_header =>
                Cardinality(TextBlocksFrom(paragraphs[k].global_index)) = 1

\* C26: in the Lecture returned, every image fragment is the source of at
\* most one Image block, also when several Pages hold paragraphs of its PDF
\* page.
C26_ImageAtMostOnce ==
    pc = "returned" =>
        \A i \in DOMAIN elements :
            elements[i].type = "image" => Cardinality(ImageBlocksFrom(i)) <= 1

\* Image i is oversized on Page pg and no Text block lies near it
OversizedOrphan(i, pg) ==
    /\ Oversized(i, pg)
    /\ \A j \in TextBlocksOf(pg) : CenterDistance2(i, pg, j) >= 2 * 1000

\* C27: in the Lecture returned for a stream with text, every image fragment
\* with a usable path is on at least one Page, unless a Page it belongs to
\* drops it as oversized; so is an image whose PDF page holds no paragraph of
\* any Page.
C27_ImageNotLost ==
    (pc = "returned" /\ paragraphs # <<>>) =>
        \A i \in Range(UsableImages) :
            \/ ImageBlocksFrom(i) # {}
            \/ \E pg \in Range(AllPages) : BelongsTo(i, pg) /\ OversizedOrphan(i, pg)

\* C28: on a Page whose paragraphs lie on one PDF page, the Image blocks
\* follow each other in the order of their tops, also when two of them were
\* put after the same Text block.
C28_ImagesInVerticalOrder ==
    pc = "returned" =>
        \A pg \in Range(AllPages) :
            (/\ pg.paras # <<>>
             /\ \A a, b \in Range(pg.paras) :
                   ParagraphAt(a).page_number = ParagraphAt(b).page_number) =>
                \A j, l \in ImageBlocksOf(pg) :
                    pg.content_blocks[j].y0 < pg.content_blocks[l].y0 => j < l

\* The ordinals of the paragraphs of pg that are no headers, in order
BodyOf(pg) ==
    SelectSeq(pg.paras, LAMBDA g : ~ParagraphAt(g).is_header)

\* C29: on every Page of the Lecture returned, the Text blocks, taken in
\* block order, are the Page's non-header paragraphs in paragraph order, one
\* block for each, whatever images were put between them.
C29_TextBlocksKept ==
    (pc = "returned" /\ paragraphs # <<>>) =>
        \A pg \in Range(AllPages) : TextSources(pg) = BodyOf(pg)

\* A Page of two Text blocks with two images put after the first
C29_Witness ==
    /\ pc = "returned"
    /\ \E pg \in Range(AllPages) :
          /\ Len(TextSources(pg)) = 2
          /\ pg.content_blocks[1].type = "text"
          /\ pg.content_blocks[2].type = "image"
          /\ pg.content_blocks[3].type = "image"
          /\ pg.content_blocks[4].type = "text"

\* ------------------------------------------------ paragraph assembly claims
\* The fragments of all paragraphs, in paragraph order
AllSpans == Concat([k \in DOMAIN paragraphs |-> paragraphs[k].spans])

\* C30: once the paragraphs are built, every text fragment is in exactly one
\* paragraph, once, and no image is in any; the fragments of a paragraph have
\* one page number; every paragraph is a run of consecutive whole lines; and
\* the fragments of all paragraphs, in paragraph order, are in the order of
\* (page, quantized y, x0).
C30_ParagraphsPartition ==
    ParagraphsBuilt =>
        /\ \A i \in DOMAIN elements :
              Cardinality({j \in DOMAIN AllSpans : AllSpans[j] = i})
                  = IF elements[i].type = "text" THEN 1 ELSE 0
        /\ \A k \in DOMAIN paragraphs : \A a, b \in Range(paragraphs[k].spans) :
              elements[a].page_number = elements[b].page_number
        /\ \A k \in DOMAIN paragraphs :
              \E lo, hi \in DOMAIN LinesOf(elements) :
                  paragraphs[k].spans = Concat(SubSeq(LinesOf(elements), lo, hi))
        /\ \A a, b \in DOMAIN AllSpans :
              a < b => ~KeyLess(elements[AllSpans[b]], elements[AllSpans[a]])

\* Three paragraphs of a stream given out of order: one of two lines, one
\* further down the page, and one of page 2
C30_Witness ==
    /\ ParagraphsBuilt
    /\ Len(paragraphs) = 3
    /\ paragraphs[1].num_lines = 2
    /\ paragraphs[3].page_number = 2
    /\ elements[1].page_number = 2

====
